---- MODULE Spec2Model ----
(***************************************************************************)
(* Quiz question generation of the AI tutor: the line parser               *)
(* (QuizSystem._parse_text_response), the validation loop and the fallback *)
(* generator (QuizSystem._generate_quiz_questions,                         *)
(* QuizSystem._get_fallback_questions) of src/src/quiz_system.py, the      *)
(* strings the completion client of src/src/chat_interface.py hands back   *)
(* and its retry loop (ChatInterface._make_request), the Quiz System page  *)
(* (the script of src/src/app.py, the quiz rows of src/src/auth.py and     *)
(* QuizSystem._display_quiz), and the Chat Assistant page with the chat    *)
(* rows and Auth.generate_chat_title.                                      *)
(*                                                                         *)
(* A Python str is a sequence of one-character strings, so that strip,     *)
(* split, startswith and slicing are computed character by character.      *)
(* A Python list is a sequence, a dict with fixed keys is a record.        *)
(***************************************************************************)
EXTENDS Integers, Sequences, FiniteSets, TLC

VARIABLES
    pc,                   \* position inside _generate_quiz_questions
    topic,                \* argument topic
    num_questions,        \* argument num_questions
    difficulty,           \* argument difficulty
    prompt,               \* local prompt (the values the f-string interpolates)
    response,             \* local response: what get_ai_response returned
    questions,            \* local questions: what _parse_text_response returned
    validated_questions,  \* local validated_questions
    result,               \* the value the call returned
    raised,               \* TRUE once the except clause of line 322 was entered
    ai_calls,             \* number of get_ai_response calls of this invocation
    wf,                   \* the block under test of the parser specification
    parser,               \* the locals of _parse_text_response, line by line
    parser_ins,           \* the same locals on the text with one line inserted
    inserted,             \* TRUE once the extra line was read
    raw_line,             \* the last raw line the loop of line 108 read
    lines_read,           \* number of lines of the text read so far
    question_starts,      \* number of them that took the branch of line 116
    quizzes,              \* the rows of the table quizzes of data/auth.db
    session_state,        \* st.session_state of each browser session
    screen,               \* what the last script run of each session rendered
    max_retries,          \* argument max_retries of _make_request
    attempt,              \* the loop variable attempt of _make_request
    http_requests,        \* what each requests.post of the call came back with
    slept,                \* the argument of each time.sleep of the call
    chats                 \* the rows of the tables chats and chat_messages

\* The variables of the line-by-line parser and of the quiz page.
scanVars ==
    <<parser, parser_ins, inserted, raw_line, lines_read, question_starts>>
appVars == <<quizzes, session_state, screen>>
\* The variables of one call of ChatInterface._make_request.
reqVars == <<max_retries, attempt, http_requests, slept>>

vars == <<pc, topic, num_questions, difficulty, prompt, response, questions,
          validated_questions, result, raised, ai_calls, wf, scanVars, appVars,
          reqVars, chats>>

-----------------------------------------------------------------------------
(* Python values *)

\* Python None: a value no str is equal to (no one-character string is "None").
None == <<"None">>

\* bool(x) for x a str, a list or None.
Truthy(x) == x # None /\ x # <<>>

\* x or d.
OrElse(x, d) == IF Truthy(x) THEN x ELSE d

\* The characters str.strip() removes that can occur inside one line.
Whitespace == {" ", "\t", "\r", "\f"}

\* The characters c with c.isdigit() among ASCII.
Digits == {"0", "1", "2", "3", "4", "5", "6", "7", "8", "9"}

RECURSIVE LStrip(_)
LStrip(s) == IF s # <<>> /\ Head(s) \in Whitespace THEN LStrip(Tail(s)) ELSE s

RECURSIVE RStrip(_)
RStrip(s) ==
    IF s # <<>> /\ s[Len(s)] \in Whitespace
    THEN RStrip(SubSeq(s, 1, Len(s) - 1))
    ELSE s

\* s.strip()
Strip(s) == RStrip(LStrip(s))

\* s.startswith(p)
StartsWith(s, p) == Len(s) >= Len(p) /\ SubSeq(s, 1, Len(p)) = p

\* c in s, for a one-character c
Contains(s, c) == \E i \in 1..Len(s) : s[i] = c

\* s.index(c) + 1
FirstIndex(s, c) ==
    CHOOSE i \in 1..Len(s) : s[i] = c /\ \A j \in 1..(i - 1) : s[j] # c

\* s.split(c, 1)[1], defined when c in s
AfterFirst(s, c) == SubSeq(s, FirstIndex(s, c) + 1, Len(s))

\* s.split('\n')
RECURSIVE SplitLines(_)
SplitLines(s) ==
    IF ~Contains(s, "\n")
    THEN <<s>>
    ELSE LET i == FirstIndex(s, "\n")
         IN  <<SubSeq(s, 1, i - 1)>> \o SplitLines(SubSeq(s, i + 1, Len(s)))

\* '\n'.join(lines)
RECURSIVE JoinLines(_)
JoinLines(lines) ==
    IF lines = <<>> THEN <<>>
    ELSE IF Len(lines) = 1 THEN lines[1]
    ELSE lines[1] \o <<"\n">> \o JoinLines(Tail(lines))

\* x in xs, for a list xs
InList(x, xs) == \E i \in 1..Len(xs) : xs[i] = x

Range(xs) == {xs[i] : i \in 1..Len(xs)}

-----------------------------------------------------------------------------
(* QuizSystem._parse_text_response *)

\* The tuple of prefixes of lines 133 and 141.
OptionMarkers ==
    {<<"a",")">>, <<"b",")">>, <<"c",")">>, <<"d",")">>, <<"A",")">>, <<"B",")">>, <<"C",")">>, <<"D",")">>}

\* A variant of lines 133 and 141 without the test len(s) > 2.
HasOptionMarker_nolen(s) == \E m \in OptionMarkers : StartsWith(s, m)

\* s.startswith(('a)', 'b)', 'c)', 'd)', 'A)', 'B)', 'C)', 'D)')) and len(s) > 2
HasOptionMarker(s) == (\E m \in OptionMarkers : StartsWith(s, m)) /\ Len(s) > 2

\* The prefixes of line 138 and of line 147.
AnswerPrefixes == {<<"A","n","s","w","e","r",":">>, <<"C","o","r","r","e","c","t"," ","a","n","s","w","e","r",":">>}
ExplanationPrefix == <<"E","x","p","l","a","n","a","t","i","o","n",":">>

\* The default explanation of lines 123 and 156.
NoExplanation == <<"N","o"," ","e","x","p","l","a","n","a","t","i","o","n"," ","p","r","o","v","i","d","e","d",".">>

\* A variant of line 116 that also asks for a text behind the first '.'.
IsQuestionStart_needtext(line) ==
    /\ line[1] \in Digits
    /\ Contains(line, ".")
    /\ Strip(AfterFirst(line, ".")) # <<>>

\* Line 116: line[0].isdigit() and '.' in line and len(line.split('.', 1)) > 1
\* (the third conjunct follows from the second).
IsQuestionStart(line) == line[1] \in Digits /\ Contains(line, ".")

\* A variant of line 133 that takes a marker alone for an option.
IsOptionLine_nolen(line) == HasOptionMarker_nolen(line)

\* Line 133.
IsOptionLine(line) == HasOptionMarker(line)

\* A variant of line 138 that knows the prefix 'Answer:' only.
IsAnswerLine_answeronly(line) == StartsWith(line, <<"A","n","s","w","e","r",":">>)

\* Line 138 (a line with the prefix contains ':').
IsAnswerLine(line) == \E p \in AnswerPrefixes : StartsWith(line, p)

\* Line 147.
IsExplanationLine(line) == StartsWith(line, ExplanationPrefix)

\* The locals of lines 101-105.
ParserStart ==
    [questions           |-> <<>>,
     current_question    |-> None,
     current_options     |-> <<>>,
     current_answer      |-> None,
     current_explanation |-> None]

\* A variant of lines 118 and 151 that does not ask for an answer.
Populated_noanswer(st) ==
    Truthy(st.current_question) /\ Truthy(st.current_options)

\* The condition of lines 118 and 151.
Populated(st) ==
    /\ Truthy(st.current_question)
    /\ Truthy(st.current_options)
    /\ Truthy(st.current_answer)

\* The dict of lines 119-124 and 152-157.
Candidate(st) ==
    [question       |-> st.current_question,
     options        |-> st.current_options,
     correct_answer |-> st.current_answer,
     explanation    |-> OrElse(st.current_explanation, NoExplanation)]

\* Lines 118-124 and 151-157: append the question in progress when populated.
Emit(st) ==
    IF Populated(st) THEN Append(st.questions, Candidate(st)) ELSE st.questions

\* A variant of lines 139-144 that keeps the marker of the answer text.
AnswerOf_keepmarker(line) == Strip(AfterFirst(line, ":"))

\* Lines 139-144: the answer text of an answer line.
AnswerOf(line) ==
    LET answer_text == Strip(AfterFirst(line, ":"))
    IN  IF HasOptionMarker(answer_text)
        THEN Strip(SubSeq(answer_text, 3, Len(answer_text)))
        ELSE answer_text

\* A variant of the loop body without line 128: a new question keeps the
\* options read so far.
ParseLine_keepoptions(st, raw) ==
    LET line == Strip(raw)
    IN  IF line = <<>> THEN st
        ELSE IF IsQuestionStart(line) THEN
            [questions           |-> Emit(st),
             current_question    |-> Strip(AfterFirst(line, ".")),
             current_options     |-> st.current_options,
             current_answer      |-> None,
             current_explanation |-> None]
        ELSE IF IsOptionLine(line) THEN
            [st EXCEPT !.current_options =
                           Append(@, Strip(SubSeq(line, 3, Len(line))))]
        ELSE IF IsAnswerLine(line) THEN
            [st EXCEPT !.current_answer = AnswerOf(line)]
        ELSE IF IsExplanationLine(line) THEN
            [st EXCEPT !.current_explanation = Strip(AfterFirst(line, ":"))]
        ELSE st

\* One iteration of the loop of lines 108-148 on one raw line.
ParseLine(st, raw) ==
    LET line == Strip(raw)
    IN  IF line = <<>> THEN st
        ELSE IF IsQuestionStart(line) THEN
            [questions           |-> Emit(st),
             current_question    |-> Strip(AfterFirst(line, ".")),
             current_options     |-> <<>>,
             current_answer      |-> None,
             current_explanation |-> None]
        ELSE IF IsOptionLine(line) THEN
            [st EXCEPT !.current_options =
                           Append(@, Strip(SubSeq(line, 3, Len(line))))]
        ELSE IF IsAnswerLine(line) THEN
            [st EXCEPT !.current_answer = AnswerOf(line)]
        ELSE IF IsExplanationLine(line) THEN
            [st EXCEPT !.current_explanation = Strip(AfterFirst(line, ":"))]
        ELSE st

\* The loop of lines 108-148 over the lines from position i on.
RECURSIVE ParseLines(_, _, _)
ParseLines(st, lines, i) ==
    IF i > Len(lines) THEN st
    ELSE ParseLines(ParseLine(st, lines[i]), lines, i + 1)

\* _parse_text_response(response)
parse_text_response(text) == Emit(ParseLines(ParserStart, SplitLines(text), 1))

\* No text is being read line by line.
ScanIdle ==
    /\ parser = ParserStart
    /\ parser_ins = ParserStart
    /\ inserted = FALSE
    /\ raw_line = None
    /\ lines_read = 0
    /\ question_starts = 0

-----------------------------------------------------------------------------
(* QuizSystem._get_fallback_questions *)

\* The keys of difficulty_specs (lines 180-257) and of difficulty_templates
\* (lines 396-449): the same four names.
Basic == <<"B","a","s","i","c">>
Beginner == <<"B","e","g","i","n","n","e","r">>
Intermediate == <<"I","n","t","e","r","m","e","d","i","a","t","e">>
Advanced == <<"A","d","v","a","n","c","e","d">>
DifficultyLevels == {Basic, Beginner, Intermediate, Advanced}

\* difficulty_templates["Basic"], lines 397-409.
BasicTemplates(tp) ==
    <<[question       |-> (<<"W","h","a","t"," ","i","s"," ","t","h","e"," ","m","o","s","t"," ","f","u","n","d","a","m","e","n","t","a","l"," ","c","o","n","c","e","p","t"," ","i","n"," ">> \o tp \o <<"?">>),
       options        |-> <<(<<"B","a","s","i","c"," ">> \o tp \o <<" ","p","r","i","n","c","i","p","l","e","s">>),
                            (<<"A","d","v","a","n","c","e","d"," ">> \o tp \o <<" ","c","o","n","c","e","p","t","s">>),
                            (<<"C","o","m","p","l","e","x"," ">> \o tp \o <<" ","p","a","t","t","e","r","n","s">>),
                            (tp \o <<" ","o","p","t","i","m","i","z","a","t","i","o","n">>)>>,
       correct_answer |-> (<<"B","a","s","i","c"," ">> \o tp \o <<" ","p","r","i","n","c","i","p","l","e","s">>),
       explanation    |-> (<<"U","n","d","e","r","s","t","a","n","d","i","n","g"," ","t","h","e"," ","b","a","s","i","c"," ","p","r","i","n","c","i","p","l","e","s"," ","i","s"," ","e","s","s","e","n","t","i","a","l"," ","f","o","r"," ","l","e","a","r","n","i","n","g"," ">> \o tp \o <<".">>)]>>

\* difficulty_templates["Beginner"], lines 410-422.
BeginnerTemplates(tp) ==
    <<[question       |-> (<<"W","h","i","c","h"," ","o","f"," ","t","h","e","s","e"," ","i","s"," ","a"," ","c","o","m","m","o","n"," ","a","p","p","l","i","c","a","t","i","o","n"," ","o","f"," ">> \o tp \o <<"?">>),
       options        |-> <<(<<"S","o","l","v","i","n","g"," ","s","i","m","p","l","e"," ">> \o tp \o <<" ","p","r","o","b","l","e","m","s">>),
                            <<"B","u","i","l","d","i","n","g"," ","c","o","m","p","l","e","x"," ","s","y","s","t","e","m","s">>,
                            <<"O","p","t","i","m","i","z","i","n","g"," ","p","e","r","f","o","r","m","a","n","c","e">>,
                            <<"M","a","n","a","g","i","n","g"," ","d","i","s","t","r","i","b","u","t","e","d"," ","s","y","s","t","e","m","s">>>>,
       correct_answer |-> (<<"S","o","l","v","i","n","g"," ","s","i","m","p","l","e"," ">> \o tp \o <<" ","p","r","o","b","l","e","m","s">>),
       explanation    |-> (<<"A","t"," ","t","h","e"," ","b","e","g","i","n","n","e","r"," ","l","e","v","e","l",","," ","f","o","c","u","s"," ","i","s"," ","o","n"," ","a","p","p","l","y","i","n","g"," ">> \o tp \o <<" ","t","o"," ","s","o","l","v","e"," ","b","a","s","i","c"," ","p","r","o","b","l","e","m","s",".">>)]>>

\* difficulty_templates["Intermediate"], lines 423-435.
IntermediateTemplates(tp) ==
    <<[question       |-> (<<"W","h","a","t"," ","i","s"," ","a","n"," ","i","m","p","o","r","t","a","n","t"," ","c","o","n","s","i","d","e","r","a","t","i","o","n"," ","w","h","e","n"," ","i","m","p","l","e","m","e","n","t","i","n","g"," ">> \o tp \o <<"?">>),
       options        |-> <<<<"C","o","d","e"," ","e","f","f","i","c","i","e","n","c","y"," ","a","n","d"," ","o","r","g","a","n","i","z","a","t","i","o","n">>,
                            <<"B","a","s","i","c"," ","s","y","n","t","a","x">>,
                            <<"S","i","m","p","l","e"," ","l","o","o","p","s">>,
                            <<"P","r","i","n","t"," ","s","t","a","t","e","m","e","n","t","s">>>>,
       correct_answer |-> <<"C","o","d","e"," ","e","f","f","i","c","i","e","n","c","y"," ","a","n","d"," ","o","r","g","a","n","i","z","a","t","i","o","n">>,
       explanation    |-> (<<"A","t"," ","t","h","e"," ","i","n","t","e","r","m","e","d","i","a","t","e"," ","l","e","v","e","l",","," ","c","o","d","e"," ","q","u","a","l","i","t","y"," ","a","n","d"," ","e","f","f","i","c","i","e","n","c","y"," ","b","e","c","o","m","e"," ","i","m","p","o","r","t","a","n","t"," ","i","n"," ">> \o tp \o <<".">>)]>>

\* difficulty_templates["Advanced"], lines 436-448.
AdvancedTemplates(tp) ==
    <<[question       |-> (<<"W","h","a","t"," ","i","s"," ","a"," ","c","r","i","t","i","c","a","l"," ","f","a","c","t","o","r"," ","w","h","e","n"," ","o","p","t","i","m","i","z","i","n","g"," ">> \o tp \o <<" ","f","o","r"," ","s","c","a","l","e","?">>),
       options        |-> <<<<"P","e","r","f","o","r","m","a","n","c","e"," ","a","n","d"," ","r","e","s","o","u","r","c","e"," ","m","a","n","a","g","e","m","e","n","t">>,
                            <<"B","a","s","i","c"," ","f","u","n","c","t","i","o","n","a","l","i","t","y">>,
                            <<"S","i","m","p","l","e"," ","e","r","r","o","r"," ","h","a","n","d","l","i","n","g">>,
                            <<"C","o","n","s","o","l","e"," ","o","u","t","p","u","t">>>>,
       correct_answer |-> <<"P","e","r","f","o","r","m","a","n","c","e"," ","a","n","d"," ","r","e","s","o","u","r","c","e"," ","m","a","n","a","g","e","m","e","n","t">>,
       explanation    |-> (<<"A","t"," ","a","n"," ","a","d","v","a","n","c","e","d"," ","l","e","v","e","l",","," ","u","n","d","e","r","s","t","a","n","d","i","n","g"," ","p","e","r","f","o","r","m","a","n","c","e"," ","i","m","p","l","i","c","a","t","i","o","n","s"," ","a","n","d"," ","r","e","s","o","u","r","c","e"," ","m","a","n","a","g","e","m","e","n","t"," ","i","s"," ","c","r","u","c","i","a","l"," ","i","n"," ">> \o tp \o <<".">>)]>>

\* A variant of line 452 without the default: difficulty_templates[difficulty]
\* has no table for another difficulty.
difficulty_templates_get_strict(t, d) ==
    IF d = Basic THEN BasicTemplates(t)
    ELSE IF d = Beginner THEN BeginnerTemplates(t)
    ELSE IF d = Intermediate THEN IntermediateTemplates(t)
    ELSE IF d = Advanced THEN AdvancedTemplates(t)
    ELSE <<>>

\* Line 452: difficulty_templates.get(difficulty, difficulty_templates["Basic"])
difficulty_templates_get(t, d) ==
    IF d = Beginner THEN BeginnerTemplates(t)
    ELSE IF d = Intermediate THEN IntermediateTemplates(t)
    ELSE IF d = Advanced THEN AdvancedTemplates(t)
    ELSE BasicTemplates(t)

\* Lines 453-456: the i-th appended question, i from 0 (Python's i % len).
FallbackAt(templates, i) == templates[(i % Len(templates)) + 1]

\* A variant of lines 372-375 (_create_basic_questions): no cycling, at most
\* len(templates) questions.
get_fallback_questions_nocycle(t, n, d) ==
    LET templates == difficulty_templates_get(t, d)
        m == IF n < Len(templates) THEN n ELSE Len(templates)
    IN  [i \in 1..m |-> templates[i]]

\* _get_fallback_questions(topic, num_questions, difficulty), lines 394-458.
get_fallback_questions(t, n, d) ==
    LET templates == difficulty_templates_get(t, d)
    IN  [i \in 1..n |-> FallbackAt(templates, i - 1)]

-----------------------------------------------------------------------------
(* QuizSystem._generate_quiz_questions *)

\* A variant of lines 304-308 without the membership test of line 308.
IsValidQuestion_nomember(q) == Len(q.options) = 4

\* A variant of lines 304-308 that accepts four or more options.
IsValidQuestion_atleast4(q) ==
    Len(q.options) >= 4 /\ InList(q.correct_answer, q.options)

\* A variant of lines 304-308 that also wants the options pairwise distinct.
IsValidQuestion_distinct(q) ==
    /\ Len(q.options) = 4
    /\ InList(q.correct_answer, q.options)
    /\ Cardinality(Range(q.options)) = 4

\* The condition of lines 304-308.  The three isinstance tests hold of every
\* dict the parser builds (options is a list, question and correct_answer are
\* str: both are truthy strings at lines 118 and 151).
IsValidQuestion(q) ==
    /\ Len(q.options) = 4
    /\ InList(q.correct_answer, q.options)

\* A variant of line 309 that repairs a rejected four-option candidate by
\* taking its first option as the answer.
Kept_repair(q) ==
    IF IsValidQuestion(q) THEN <<q>>
    ELSE IF Len(q.options) = 4
         THEN <<[q EXCEPT !.correct_answer = q.options[1]]>>
         ELSE <<>>

\* Lines 304-309: what one candidate adds to validated_questions.
Kept(q) == IF IsValidQuestion(q) THEN <<q>> ELSE <<>>

\* A variant of the loop of lines 301-313 that puts each kept candidate in
\* front of the earlier ones.
RECURSIVE ValidateFrom_prepend(_, _, _, _)
ValidateFrom_prepend(qs, i, acc, n) ==
    IF i > Len(qs) THEN acc
    ELSE LET acc2 == Kept(qs[i]) \o acc
         IN  IF Len(acc2) = n THEN acc2
             ELSE ValidateFrom_prepend(qs, i + 1, acc2, n)

\* The loop of lines 301-313 from candidate i on: append when valid, then
\* break when len(validated_questions) == num_questions.
RECURSIVE ValidateFrom(_, _, _, _)
ValidateFrom(qs, i, acc, n) ==
    IF i > Len(qs) THEN acc
    ELSE LET acc2 == acc \o Kept(qs[i])
         IN  IF Len(acc2) = n THEN acc2
             ELSE ValidateFrom(qs, i + 1, acc2, n)

\* Lines 300-313.
Validate(qs, n) == ValidateFrom(qs, 1, <<>>, n)

\* The prompt of lines 260-287 as the values its f-string interpolates; the
\* lookup difficulty_specs[difficulty] raises KeyError for another difficulty.
NoPrompt == [num_questions |-> 0, topic |-> None, difficulty |-> None]
PromptOf(t, n, d) == [num_questions |-> n, topic |-> t, difficulty |-> d]

-----------------------------------------------------------------------------
(* What ChatInterface.get_ai_response can return *)

\* The error strings of ChatInterface._make_request (lines 65, 68, 75, 78, 83
\* and 88), which get_ai_response returns unchanged (lines 147-148), and the
\* error strings of get_ai_response itself (lines 172 and 177).  The status
\* code and the exception text are one representative each.
ErrServiceUnavailable == <<"S","e","r","v","i","c","e"," ","i","s"," ","c","u","r","r","e","n","t","l","y"," ","u","n","a","v","a","i","l","a","b","l","e","."," ","P","l","e","a","s","e"," ","t","r","y"," ","a","g","a","i","n"," ","l","a","t","e","r",".">>
ErrInvalidToken == <<"E","r","r","o","r",":"," ","I","n","v","a","l","i","d"," ","A","P","I"," ","t","o","k","e","n","."," ","P","l","e","a","s","e"," ","c","h","e","c","k"," ","y","o","u","r"," ","H","u","g","g","i","n","g"," ","F","a","c","e"," ","A","P","I"," ","t","o","k","e","n",".">>
ErrTooManyRequests == <<"T","o","o"," ","m","a","n","y"," ","r","e","q","u","e","s","t","s","."," ","P","l","e","a","s","e"," ","t","r","y"," ","a","g","a","i","n"," ","l","a","t","e","r",".">>
ErrStatusCode == <<"E","r","r","o","r",":"," ","A","P","I"," ","r","e","q","u","e","s","t"," ","f","a","i","l","e","d"," ","w","i","t","h"," ","s","t","a","t","u","s"," ","c","o","d","e"," ","5","0","0">>
ErrTimeout == <<"R","e","q","u","e","s","t"," ","t","i","m","e","d"," ","o","u","t","."," ","P","l","e","a","s","e"," ","t","r","y"," ","a","g","a","i","n",".">>
ErrNetwork == <<"N","e","t","w","o","r","k"," ","e","r","r","o","r"," ","o","c","c","u","r","r","e","d",":"," ","C","o","n","n","e","c","t","i","o","n"," ","r","e","f","u","s","e","d">>
ErrProcessing == <<"E","r","r","o","r"," ","p","r","o","c","e","s","s","i","n","g"," ","r","e","s","p","o","n","s","e",":"," ","0">>
ErrUnexpected == <<"A","n"," ","u","n","e","x","p","e","c","t","e","d"," ","e","r","r","o","r"," ","o","c","c","u","r","r","e","d",":"," ","'","i","n","p","u","t","s","'">>

ErrorStrings ==
    {ErrServiceUnavailable, ErrInvalidToken, ErrTooManyRequests, ErrStatusCode,
     ErrTimeout, ErrNetwork, ErrProcessing, ErrUnexpected}

\* Generated text, as blocks of lines the completion model may produce.
\* A block in the format of the prompt (lines 271-279).
BlockGood1 ==
    <<<<"1","."," ","Q","?">>, <<"a",")"," ","X">>, <<"b",")"," ","Y">>, <<"c",")"," ","Z">>, <<"d",")"," ","W">>, <<>>,
      <<"A","n","s","w","e","r",":"," ","a",")"," ","X">>, <<"E","x","p","l","a","n","a","t","i","o","n",":"," ","E">>>>

\* Upper-case markers, 'Correct answer:' without a marker, no explanation.
BlockGood2 ==
    <<<<"2","."," ","R","?">>, <<"A",")"," ","X">>, <<"B",")"," ","Y">>, <<"C",")"," ","Z">>, <<"D",")"," ","W">>, <<"C","o","r","r","e","c","t"," ","a","n","s","w","e","r",":"," ","Y">>>>

\* Indented lines and a narrative line between the options.
BlockGood3 ==
    <<<<"3","."," "," ","S","?">>, <<" "," ","a",")"," ","X"," "," ">>, <<"(","p","i","c","k"," ","o","n","e",")">>, <<"b",")"," ","Y">>, <<"\t","c",")"," ","Z">>, <<"d",")"," ","W">>,
      <<"A","n","s","w","e","r",":"," ","c",")"," ","Z">>, <<"E","x","p","l","a","n","a","t","i","o","n",":"," ","E">>>>

\* Only three options.
BlockThreeOptions ==
    <<<<"4","."," ","T","?">>, <<"a",")"," ","X">>, <<"b",")"," ","Y">>, <<"c",")"," ","Z">>, <<"A","n","s","w","e","r",":"," ","a",")"," ","X">>>>

\* Five options.
BlockFiveOptions ==
    <<<<"5","."," ","U","?">>, <<"a",")"," ","X">>, <<"b",")"," ","Y">>, <<"c",")"," ","Z">>, <<"d",")"," ","W">>, <<"a",")"," ","V">>,
      <<"A","n","s","w","e","r",":"," ","a",")"," ","X">>>>

\* The answer differs from the option in case only.
BlockWrongCase ==
    <<<<"6","."," ","V","?">>, <<"a",")"," ","X">>, <<"b",")"," ","Y">>, <<"c",")"," ","Z">>, <<"d",")"," ","W">>, <<"A","n","s","w","e","r",":"," ","a",")"," ","x">>>>

\* No answer line.
BlockNoAnswer ==
    <<<<"7","."," ","N","?">>, <<"a",")"," ","X">>, <<"b",")"," ","Y">>, <<"c",")"," ","Z">>, <<"d",")"," ","W">>, <<"E","x","p","l","a","n","a","t","i","o","n",":"," ","E">>>>

\* Two options with the same text.
BlockDupOptions ==
    <<<<"8","."," ","D","?">>, <<"a",")"," ","X">>, <<"b",")"," ","X">>, <<"c",")"," ","Z">>, <<"d",")"," ","W">>, <<"A","n","s","w","e","r",":"," ","a",")"," ","X">>>>

\* Narrative text only.
BlockNarrative == <<<<"H","e","r","e"," ","a","r","e"," ","y","o","u","r"," ","q","u","e","s","t","i","o","n","s",":">>>>

\* A digit-prefixed line between the options and the answer.
BlockSplitByNumber ==
    <<<<"9","."," ","P","?">>, <<"a",")"," ","X">>, <<"b",")"," ","Y">>, <<"c",")"," ","Z">>, <<"d",")"," ","W">>, <<"1","."," ","s","e","e"," ","a","b","o","v","e">>,
      <<"A","n","s","w","e","r",":"," ","a",")"," ","X">>>>

\* An option line that is the marker alone.
BlockMarkerOnly ==
    <<<<"3","."," ","M","?">>, <<"a",")">>, <<"b",")"," ","Y">>, <<"c",")"," ","Z">>, <<"d",")"," ","W">>, <<"A","n","s","w","e","r",":"," ","b",")"," ","Y">>>>

Blocks ==
    {BlockGood1, BlockGood2, BlockGood3, BlockThreeOptions, BlockFiveOptions,
     BlockWrongCase, BlockNoAnswer, BlockDupOptions, BlockNarrative,
     BlockSplitByNumber, BlockMarkerOnly}

\* The largest number of blocks in one generated text.
MaxBlocks == 2

\* The largest num_questions requested (the slider of app.py line 288 allows
\* 1 to 10).
MaxQuestions == 2

RECURSIVE ConcatAll(_)
ConcatAll(bs) == IF bs = <<>> THEN <<>> ELSE Head(bs) \o ConcatAll(Tail(bs))

\* The generated texts: up to MaxBlocks blocks, one line after the other.
GeneratedTexts ==
    {JoinLines(ConcatAll(bs)) :
        bs \in UNION {[1..k -> Blocks] : k \in 0..MaxBlocks}}

\* Everything get_ai_response can return: it always returns a str.
ClientReturns == GeneratedTexts \cup ErrorStrings

\* The arguments of a call.
Topics == {<<"S","Q","L">>, <<"G","o">>}
Expert == <<"E","x","p","e","r","t">>
Difficulties == DifficultyLevels \cup {Expert}

-----------------------------------------------------------------------------
(* The call _generate_quiz_questions(topic, num_questions, difficulty) *)

\* No request is being made and there is no chat.
ReqIdle ==
    /\ max_retries = 0
    /\ attempt = 0
    /\ http_requests = <<>>
    /\ slept = <<>>

ChatIdle == chats = <<>>

NoBlock == [used |-> FALSE]

\* No browser session is open and the table quizzes is empty.
AppIdle == quizzes = <<>> /\ session_state = <<>> /\ screen = <<>>

\* The value the call returns: a list of question dicts.
Returned(qs) == [kind |-> "list", value |-> qs]

\* The call has not returned.
NoResult == [kind |-> "none"]

\* Outcomes the code never produces, for the variants below: the call returns
\* a str in place of the list, or an exception leaves the call.
ReturnedText(s) == [kind |-> "str", text |-> s]
Propagated == [kind |-> "raise"]

Init ==
    /\ pc = "REQUESTED"
    /\ topic \in Topics
    /\ num_questions \in 1..MaxQuestions
    /\ difficulty \in Difficulties
    /\ prompt = NoPrompt
    /\ response = None
    /\ questions = <<>>
    /\ validated_questions = <<>>
    /\ result = NoResult
    /\ raised = FALSE
    /\ ai_calls = 0
    /\ wf = NoBlock
    /\ ScanIdle
    /\ AppIdle
    /\ ReqIdle
    /\ ChatIdle

\* Lines 180-287: difficulty_specs[difficulty] succeeds for the four keys.
PromptBuilt ==
    /\ pc = "REQUESTED"
    /\ difficulty \in DifficultyLevels
    /\ prompt' = PromptOf(topic, num_questions, difficulty)
    /\ pc' = "PROMPTED"
    /\ UNCHANGED <<topic, num_questions, difficulty, response, questions,
                   validated_questions, result, raised, ai_calls, wf,
                   scanVars, appVars, reqVars, chats>>

\* A variant of PromptRaised without the except clause of lines 322-325: the
\* KeyError leaves the call.
PromptRaised_propagate ==
    /\ pc = "REQUESTED"
    /\ difficulty \notin DifficultyLevels
    /\ raised' = TRUE
    /\ result' = Propagated
    /\ pc' = "DONE"
    /\ UNCHANGED <<topic, num_questions, difficulty, prompt, response,
                   questions, validated_questions, ai_calls, wf,
                   scanVars, appVars, reqVars, chats>>

\* Lines 263 and 322-324: difficulty_specs[difficulty] raises KeyError for any
\* other difficulty, and the except clause is entered.
PromptRaised ==
    /\ pc = "REQUESTED"
    /\ difficulty \notin DifficultyLevels
    /\ raised' = TRUE
    /\ pc' = "FALLBACK"
    /\ UNCHANGED <<topic, num_questions, difficulty, prompt, response,
                   questions, validated_questions, result, ai_calls, wf,
                   scanVars, appVars, reqVars, chats>>

\* A variant of ResponseParsed that returns an error string of the client to
\* the caller at once, as get_ai_response does with the error strings of
\* _make_request (chat_interface.py lines 147-148).
ResponseParsed_shortcircuit ==
    /\ pc = "PROMPTED"
    /\ \E r \in ClientReturns :
        /\ response' = r
        /\ IF r \in ErrorStrings
           THEN /\ questions' = questions
                /\ result' = ReturnedText(r)
                /\ pc' = "DONE"
           ELSE /\ questions' = parse_text_response(r)
                /\ result' = result
                /\ pc' = "PARSED"
    /\ ai_calls' = ai_calls + 1
    /\ UNCHANGED <<topic, num_questions, difficulty, prompt,
                   validated_questions, raised, wf, scanVars, appVars,
                   reqVars, chats>>

\* Lines 290-297: the one call of get_ai_response, then the parser.
ResponseParsed ==
    /\ pc = "PROMPTED"
    /\ \E r \in ClientReturns :
        /\ response' = r
        /\ questions' = parse_text_response(r)
    /\ ai_calls' = ai_calls + 1
    /\ pc' = "PARSED"
    /\ UNCHANGED <<topic, num_questions, difficulty, prompt,
                   validated_questions, result, raised, wf, scanVars, appVars,
                   reqVars, chats>>

\* Lines 300-313: the validation loop.
Validated ==
    /\ pc = "PARSED"
    /\ validated_questions' = Validate(questions, num_questions)
    /\ pc' = "VALIDATED"
    /\ UNCHANGED <<topic, num_questions, difficulty, prompt, response,
                   questions, result, raised, ai_calls, wf, scanVars, appVars,
                   reqVars, chats>>

\* A variant of ReturnValidated that tops a short validated list up with
\* fallback questions, as the comment of line 318 describes.
ReturnValidated_topup ==
    /\ pc = "VALIDATED"
    /\ validated_questions # <<>>
    /\ result' = Returned(validated_questions \o
                     get_fallback_questions(topic,
                         num_questions - Len(validated_questions), difficulty))
    /\ pc' = "DONE"
    /\ UNCHANGED <<topic, num_questions, difficulty, prompt, response,
                   questions, validated_questions, raised, ai_calls, wf,
                   scanVars, appVars, reqVars, chats>>

\* Lines 315-316: a non-empty validated list is returned.
ReturnValidated ==
    /\ pc = "VALIDATED"
    /\ validated_questions # <<>>
    /\ result' = Returned(validated_questions)
    /\ pc' = "DONE"
    /\ UNCHANGED <<topic, num_questions, difficulty, prompt, response,
                   questions, validated_questions, raised, ai_calls, wf,
                   scanVars, appVars, reqVars, chats>>

\* A variant of NothingValidated that asks the completion client once more
\* before it gives up.
NothingValidated_retry ==
    /\ pc = "VALIDATED"
    /\ validated_questions = <<>>
    /\ pc' = IF ai_calls < 2 THEN "PROMPTED" ELSE "FALLBACK"
    /\ UNCHANGED <<topic, num_questions, difficulty, prompt, response,
                   questions, validated_questions, result, raised, ai_calls,
                   wf, scanVars, appVars, reqVars, chats>>

\* A variant of NothingValidated that returns the empty validated list.
NothingValidated_returnempty ==
    /\ pc = "VALIDATED"
    /\ validated_questions = <<>>
    /\ result' = Returned(validated_questions)
    /\ pc' = "DONE"
    /\ UNCHANGED <<topic, num_questions, difficulty, prompt, response,
                   questions, validated_questions, raised, ai_calls, wf,
                   scanVars, appVars, reqVars, chats>>

\* Lines 318-319: an empty validated list leads to the fallback call.
NothingValidated ==
    /\ pc = "VALIDATED"
    /\ validated_questions = <<>>
    /\ pc' = "FALLBACK"
    /\ UNCHANGED <<topic, num_questions, difficulty, prompt, response,
                   questions, validated_questions, result, raised, ai_calls,
                   wf, scanVars, appVars, reqVars, chats>>

\* Lines 320 and 325: return self._get_fallback_questions(...).
ReturnFallback ==
    /\ pc = "FALLBACK"
    /\ result' = Returned(get_fallback_questions(topic, num_questions,
                                                 difficulty))
    /\ pc' = "DONE"
    /\ UNCHANGED <<topic, num_questions, difficulty, prompt, response,
                   questions, validated_questions, raised, ai_calls, wf,
                   scanVars, appVars, reqVars, chats>>

Next ==
    \/ PromptBuilt
    \/ PromptRaised
    \/ ResponseParsed
    \/ Validated
    \/ ReturnValidated
    \/ NothingValidated
    \/ ReturnFallback

Spec == Init /\ [][Next]_vars

\* The call is straight-line code with one bounded loop per stage, and
\* get_ai_response returns after at most max_retries requests with a timeout
\* each (chat_interface.py lines 47-88): a stage that can run does run.
SpecLive == Spec /\ WF_vars(Next)

-----------------------------------------------------------------------------
(* Properties of _generate_quiz_questions *)

\* A question as section 3 of the specification wants it: four options, the
\* answer one of them.
FourOptionsWithAnswer(q) ==
    Len(q.options) = 4 /\ q.correct_answer \in Range(q.options)

\* The criteria of the validator contract: four options, non-empty text,
\* non-empty answer, the answer one of the options.
MeetsCriteria(q) ==
    /\ Len(q.options) = 4
    /\ q.question # <<>>
    /\ q.correct_answer # <<>>
    /\ \E i \in 1..Len(q.options) : q.options[i] = q.correct_answer

\* The candidates of qs that meet the criteria, in the order of qs.
ValidOnes(qs) == SelectSeq(qs, MeetsCriteria)

\* The template table of a difficulty level.
TemplateTable(tp, d) ==
    CASE d = Basic -> BasicTemplates(tp)
      [] d = Beginner -> BeginnerTemplates(tp)
      [] d = Intermediate -> IntermediateTemplates(tp)
      [] d = Advanced -> AdvancedTemplates(tp)

\* The call has returned.
Done == pc = "DONE"

\* The call returned on the AI path (lines 315-316).
DoneOnAIPath == Done /\ ~raised /\ validated_questions # <<>>

\* C1: for every topic, every count N and every difficulty level, whatever
\* the completion client returns, the call returns a list of exactly N
\* questions.
C1_ExactlyN ==
    (Done /\ difficulty \in DifficultyLevels) =>
        (result.kind = "list" /\ Len(result.value) = num_questions)

\* C2: every returned question, on the AI path and on the fallback path, has
\* exactly 4 options and a correct_answer that is one of them; no parsed
\* candidate that violates this is in the returned list.
C2_ReturnedAreWellFormed ==
    Done =>
        /\ result.kind = "list"
        /\ \A i \in 1..Len(result.value) :
               FourOptionsWithAnswer(result.value[i])
        /\ \A j \in 1..Len(questions) :
               ~FourOptionsWithAnswer(questions[j]) =>
                   questions[j] \notin Range(result.value)

\* C2 witness: a call returned parsed questions after the parser had emitted
\* a candidate that violates the invariant.
C2_Witness ==
    /\ DoneOnAIPath
    /\ \E j \in 1..Len(questions) : ~FourOptionsWithAnswer(questions[j])

\* C3: the call never raises; when a stage raised, the call returns what the
\* fallback generator returns for the same (topic, N, difficulty), and that
\* list is not empty.
C3_NeverRaises ==
    /\ result.kind \in {"none", "list"}
    /\ (Done /\ raised) =>
           /\ result.kind = "list"
           /\ result.value =
                  get_fallback_questions(topic, num_questions, difficulty)
           /\ result.value # <<>>

\* C3 witness: a call whose prompt building raised has returned.
C3_Witness == Done /\ raised /\ difficulty = Expert

\* C4: when the text of the completion client yields no validated candidate,
\* the call returns exactly N questions, each one from the template table of
\* the requested difficulty, and no error.
C4_ZeroValidFallsBack ==
    (Done /\ ai_calls = 1 /\ ValidOnes(questions) = <<>>) =>
        /\ result.kind = "list"
        /\ Len(result.value) = num_questions
        /\ \A i \in 1..Len(result.value) :
               result.value[i] \in Range(TemplateTable(topic, difficulty))

\* C4 witness: the parser emitted candidates, all were rejected, and the call
\* returned.
C4_Witness ==
    /\ Done
    /\ ai_calls = 1
    /\ questions # <<>>
    /\ ValidOnes(questions) = <<>>

\* C5 as claimed: when the completion client returns an error string, the call
\* returns that string itself in place of the list.
C5_ReturnsErrorString ==
    (Done /\ response \in ErrorStrings) => result = ReturnedText(response)

\* C5 as amended: when the completion client returns an error string, the
\* parser finds no candidate in it and the call returns a list of N fallback
\* questions; the error string is not returned.
C5_ErrorStringFallsBack ==
    (Done /\ response \in ErrorStrings) =>
        /\ questions = <<>>
        /\ result # ReturnedText(response)
        /\ result =
               Returned([i \in 1..num_questions |->
                            TemplateTable(topic, difficulty)[1]])

\* C5 witness: a call that received an error string has returned.
C5_Witness == Done /\ response = ErrServiceUnavailable

\* C6: when the text holds M >= N valid candidates, the call returns the first
\* N of them in their order.
C6_FirstNInOrder ==
    (Done /\ ai_calls = 1 /\ Len(ValidOnes(questions)) >= num_questions) =>
        result = Returned(SubSeq(ValidOnes(questions), 1, num_questions))

\* C6 witness: more valid candidates than requested, and the call returned.
C6_Witness ==
    /\ Done
    /\ Len(ValidOnes(questions)) > num_questions
    /\ ValidOnes(questions)[1] # ValidOnes(questions)[2]

ValidationDone == pc \in {"VALIDATED", "FALLBACK", "DONE"} /\ ai_calls = 1

\* s is xs with some elements left out, the rest in the order of xs.
RECURSIVE IsSubsequence(_, _)
IsSubsequence(s, xs) ==
    IF s = <<>> THEN TRUE
    ELSE IF xs = <<>> THEN FALSE
    ELSE IF Head(s) = Head(xs) THEN IsSubsequence(Tail(s), Tail(xs))
    ELSE IsSubsequence(s, Tail(xs))

\* C8 as claimed: validation keeps a candidate if and only if it meets the
\* criteria, in the order of the parser output: what it keeps is the parser
\* output without the candidates that fail the criteria.
C8_KeepsIffCriteria ==
    ValidationDone => validated_questions = ValidOnes(questions)

\* The number of candidates before position j that meet the criteria.
ValidBefore(qs, j) == Cardinality({i \in 1..(j - 1) : MeetsCriteria(qs[i])})

\* The positions validation keeps: the candidate meets the criteria and fewer
\* than n candidates that meet them precede it.
KeptPositions(qs, n) ==
    {j \in 1..Len(qs) : MeetsCriteria(qs[j]) /\ ValidBefore(qs, j) < n}

\* The candidates at the positions P, in the order of qs.
AtPositions(qs, P) ==
    [k \in 1..Cardinality(P) |->
        qs[CHOOSE j \in P : Cardinality({i \in P : i <= j}) = k]]

\* C8 as amended: validation keeps a candidate if and only if it meets the
\* criteria and fewer than N candidates that meet them precede it, in the
\* order of the parser output.
C8_KeepsIffCriteriaUpToN ==
    ValidationDone =>
        validated_questions =
            AtPositions(questions, KeptPositions(questions, num_questions))

\* C8 witness: of two candidates the first was rejected and the second kept.
C8_Witness ==
    /\ pc = "VALIDATED"
    /\ Len(questions) = 2
    /\ ~MeetsCriteria(questions[1])
    /\ validated_questions = <<questions[2]>>

\* C9: every question returned on the AI path is identical, field for field,
\* to a candidate of the parser, and what is returned is the parser output
\* with candidates left out.
C9_ValidationChangesNothing ==
    DoneOnAIPath =>
        /\ \A i \in 1..Len(result.value) :
               \E j \in 1..Len(questions) :
                   /\ result.value[i].question = questions[j].question
                   /\ result.value[i].options = questions[j].options
                   /\ result.value[i].correct_answer =
                          questions[j].correct_answer
                   /\ result.value[i].explanation = questions[j].explanation
        /\ IsSubsequence(result.value, questions)

\* C9 witness: a call returned a parsed question after a four-option candidate
\* with an answer outside its options was dropped.
C9_Witness ==
    /\ DoneOnAIPath
    /\ \E j \in 1..Len(questions) :
           /\ Len(questions[j].options) = 4
           /\ questions[j].correct_answer \notin Range(questions[j].options)

-----------------------------------------------------------------------------
(* The parser on one well-formed block *)

\* The texts of a block: stripped and not empty, some of them with the
\* characters the parser looks for ('.', ':', a digit, an option marker).
QuestionNumbers == {<<"1">>, <<"1","2">>}
QuestionTexts == {<<"Q","?">>, <<"W","h","a","t"," ","i","s"," ","2",".","5"," ","+"," ","1","?">>, <<"a",")"," ","o","r"," ","b",":"," ","w","h","i","c","h","?">>}
OptionTexts == {<<"X">>, <<"b",")"," ","1","."," ","A","n","s","w","e","r",":"," ","n","o">>}
AnswerTexts == {<<"X">>, <<"1","."," ","Y"," ","z">>}
ExplanationTexts == {<<"E">>, <<"B","e","c","a","u","s","e",":"," ","1","."," ","i","t"," ","i","s">>}
AnswerLetters == {<<"a">>, <<"c">>}
BlankLines == {<<>>, <<" "," ">>}

\* The largest number of blank lines put into one block.
MaxBlankLines == 1

\* The blocks: the texts, the letter of the answer line, and the positions
\* (0 = before the first line, 7 = after the last) that get a blank line.
WellFormedBlocks ==
    [used        : {TRUE},
     number      : QuestionNumbers,
     question    : QuestionTexts,
     options     : [1..4 -> OptionTexts],
     letter      : AnswerLetters,
     answer      : AnswerTexts,
     explanation : ExplanationTexts,
     blank       : BlankLines,
     blanks      : {P \in SUBSET (0..7) : Cardinality(P) <= MaxBlankLines}]

\* The seven lines of the block b, in the format of lines 272-279.
BlockLines(b) ==
    <<b.number \o <<"."," ">> \o b.question,
      <<"a",")"," ">> \o b.options[1],
      <<"b",")"," ">> \o b.options[2],
      <<"c",")"," ">> \o b.options[3],
      <<"d",")"," ">> \o b.options[4],
      <<"A","n","s","w","e","r",":"," ">> \o b.letter \o <<")"," ">> \o b.answer,
      <<"E","x","p","l","a","n","a","t","i","o","n",":"," ">> \o b.explanation>>

\* lines from position p + 1 on, with the blank line at the positions of P.
RECURSIVE WithBlanks(_, _, _, _)
WithBlanks(lines, P, blank, p) ==
    (IF p \in P THEN <<blank>> ELSE <<>>) \o
    (IF p >= Len(lines) THEN <<>>
     ELSE <<lines[p + 1]>> \o WithBlanks(lines, P, blank, p + 1))

\* The text of the block b.
BlockText(b) == JoinLines(WithBlanks(BlockLines(b), b.blanks, b.blank, 0))

InitParse ==
    /\ wf \in WellFormedBlocks
    /\ response = BlockText(wf)
    /\ pc = "PARSE_CALLED"
    /\ questions = <<>>
    /\ topic = None
    /\ num_questions = 0
    /\ difficulty = None
    /\ prompt = NoPrompt
    /\ validated_questions = <<>>
    /\ result = NoResult
    /\ raised = FALSE
    /\ ai_calls = 0
    /\ ScanIdle
    /\ AppIdle
    /\ ReqIdle
    /\ ChatIdle

\* The call _parse_text_response(response), lines 101-159.
ParseReturned ==
    /\ pc = "PARSE_CALLED"
    /\ questions' = parse_text_response(response)
    /\ pc' = "PARSE_RETURNED"
    /\ UNCHANGED <<topic, num_questions, difficulty, prompt, response,
                   validated_questions, result, raised, ai_calls, wf,
                   scanVars, appVars, reqVars, chats>>

NextParse == ParseReturned

SpecParse == InitParse /\ [][NextParse]_vars

\* C10: on one well-formed block, with blank lines anywhere, the parser
\* returns exactly one candidate: the question is the text after the first
\* '.', the options are the four option texts in input order, the answer is
\* the answer text without its marker, the explanation is the explanation
\* text.
C10_WellFormedBlockRoundTrip ==
    pc = "PARSE_RETURNED" =>
        questions = <<[question       |-> wf.question,
                       options        |-> <<wf.options[1], wf.options[2],
                                            wf.options[3], wf.options[4]>>,
                       correct_answer |-> wf.answer,
                       explanation    |-> wf.explanation]>>

\* C10 witness: the parser returned on a block with a blank line inside it
\* and with '.', ':' and an option marker inside its texts.
C10_Witness ==
    /\ pc = "PARSE_RETURNED"
    /\ Len(questions) = 1
    /\ wf.blanks = {5}
    /\ wf.question = <<"W","h","a","t"," ","i","s"," ","2",".","5"," ","+"," ","1","?">>
    /\ wf.options[2] = <<"b",")"," ","1","."," ","A","n","s","w","e","r",":"," ","n","o">>
    /\ wf.answer = <<"1","."," ","Y"," ","z">>
    /\ wf.explanation = <<"B","e","c","a","u","s","e",":"," ","1","."," ","i","t"," ","i","s">>

-----------------------------------------------------------------------------
(* _parse_text_response, one line of the text at a time *)

\* The raw lines a text is made of.
QuestionLines == {<<"1","."," ","Q","?">>, <<"2","."," ","R","?">>, <<"3",".">>}
OptionLines == {<<"a",")"," ","X">>, <<" "," ","B",")"," ","Y"," "," ">>}
AnswerLines == {<<"A","n","s","w","e","r",":"," ","a",")"," ","X">>, <<"C","o","r","r","e","c","t"," ","a","n","s","w","e","r",":"," ","Y">>, <<"A","n","s","w","e","r",":">>}
ExplanationLines == {<<"E","x","p","l","a","n","a","t","i","o","n",":"," ","E">>, <<"E","x","p","l","a","n","a","t","i","o","n",":">>}
EmptyLines == {<<" "," ">>}

\* Lines that are not blank and take none of the branches of lines 116, 133,
\* 138 and 147: narrative, a marker alone, a prefix in another case, a digit
\* that is not the first character, a marker outside the tuple of line 133.
UnmatchedLines ==
    {<<"(","p","i","c","k"," ","o","n","e",")">>, <<"a",")">>, <<"a","n","s","w","e","r",":"," ","a",")"," ","X">>, <<"Q","1","."," ","x">>, <<"e",")"," ","V">>}

ScanLines ==
    QuestionLines \cup OptionLines \cup AnswerLines \cup ExplanationLines
        \cup EmptyLines \cup {<<"a",")">>}

\* The largest number of lines of one text.
MaxLines == 6

\* The branch of the loop body (lines 109-148) a raw line takes.
Rule(raw) ==
    LET s == Strip(raw)
    IN  IF s = <<>> THEN "blank"
        ELSE IF IsQuestionStart(s) THEN "question"
        ELSE IF IsOptionLine(s) THEN "option"
        ELSE IF IsAnswerLine(s) THEN "answer"
        ELSE IF IsExplanationLine(s) THEN "explanation"
        ELSE "none"

InitScan ==
    /\ pc = "SCANNING"
    /\ parser = ParserStart
    /\ parser_ins = ParserStart
    /\ inserted = FALSE
    /\ raw_line = None
    /\ lines_read = 0
    /\ question_starts = 0
    /\ topic = None
    /\ num_questions = 0
    /\ difficulty = None
    /\ prompt = NoPrompt
    /\ response = None
    /\ questions = <<>>
    /\ validated_questions = <<>>
    /\ result = NoResult
    /\ raised = FALSE
    /\ ai_calls = 0
    /\ wf = NoBlock
    /\ AppIdle
    /\ ReqIdle
    /\ ChatIdle

\* One iteration of the loop of line 108 on the next line of the text, which
\* both texts have.
ReadLine(raw) ==
    /\ pc = "SCANNING"
    /\ lines_read < MaxLines
    /\ parser' = ParseLine(parser, raw)
    /\ parser_ins' = ParseLine(parser_ins, raw)
    /\ raw_line' = raw
    /\ lines_read' = lines_read + 1
    /\ question_starts' =
           question_starts + (IF Rule(raw) = "question" THEN 1 ELSE 0)
    /\ UNCHANGED <<pc, topic, num_questions, difficulty, prompt, response,
                   questions, validated_questions, result, raised, ai_calls,
                   wf, inserted, appVars, reqVars, chats>>

\* Lines 111-112: a blank line.
ReadBlank == \E raw \in ScanLines : Rule(raw) = "blank" /\ ReadLine(raw)

\* Lines 116-130: a new question starts.
ReadQuestionStart ==
    \E raw \in ScanLines : Rule(raw) = "question" /\ ReadLine(raw)

\* Lines 133-135: an option.
ReadOption == \E raw \in ScanLines : Rule(raw) = "option" /\ ReadLine(raw)

\* Lines 138-144: the answer.
ReadAnswer == \E raw \in ScanLines : Rule(raw) = "answer" /\ ReadLine(raw)

\* Lines 147-148: the explanation.
ReadExplanation ==
    \E raw \in ScanLines : Rule(raw) = "explanation" /\ ReadLine(raw)

\* No branch is taken.
ReadUnmatched == \E raw \in ScanLines : Rule(raw) = "none" /\ ReadLine(raw)

\* The second text has one more line here, which the first text has not.
ReadInsertedLine ==
    /\ pc = "SCANNING"
    /\ ~inserted
    /\ \E raw \in UnmatchedLines : parser_ins' = ParseLine(parser_ins, raw)
    /\ inserted' = TRUE
    /\ UNCHANGED <<pc, topic, num_questions, difficulty, prompt, response,
                   questions, validated_questions, result, raised, ai_calls,
                   wf, parser, raw_line, lines_read, question_starts,
                   appVars, reqVars, chats>>

\* Lines 150-159: the loop is over, the last question is appended when
\* populated, and the list is returned.
EndOfText ==
    /\ pc = "SCANNING"
    /\ parser' = [parser EXCEPT !.questions = Emit(parser)]
    /\ parser_ins' = [parser_ins EXCEPT !.questions = Emit(parser_ins)]
    /\ questions' = Emit(parser)
    /\ pc' = "PARSE_RETURNED"
    /\ UNCHANGED <<topic, num_questions, difficulty, prompt, response,
                   validated_questions, result, raised, ai_calls, wf,
                   inserted, raw_line, lines_read, question_starts, appVars,
                   reqVars, chats>>

NextScan ==
    \/ ReadBlank
    \/ ReadQuestionStart
    \/ ReadOption
    \/ ReadAnswer
    \/ ReadExplanation
    \/ ReadUnmatched
    \/ ReadInsertedLine
    \/ EndOfText

SpecScan == InitScan /\ [][NextScan]_vars

\* C11: a text and the same text with one more line, not blank and taking
\* none of the parser's branches, put at any position: the parser is in the
\* same state after every line (same question in progress, same options,
\* answer and explanation, same finished questions) and returns the same
\* list.
C11_UnmatchedLineChangesNothing ==
    /\ parser_ins = parser
    /\ pc = "PARSE_RETURNED" => parser_ins.questions = questions

\* C11 witness: the parser returned two questions on both texts, and the
\* second text had its extra line.
C11_Witness ==
    /\ pc = "PARSE_RETURNED"
    /\ inserted
    /\ Len(questions) = 2
    /\ Len(parser_ins.questions) = 2

\* C20: the parser appends a candidate only when it reads a new-question
\* line or reaches the end of the text, and only when the question in
\* progress has a non-empty text, at least one option and a non-empty
\* answer; otherwise nothing is appended.  The candidate goes behind the
\* earlier ones and carries the captured explanation, or the default text
\* when none was captured or it is empty.  There are never more candidates
\* than new-question lines read.
C20_Step ==
    LET atQuestionLine ==
            lines_read' = lines_read + 1 /\ Rule(raw_line') = "question"
        atEnd == pc = "SCANNING" /\ pc' = "PARSE_RETURNED"
        complete ==
            /\ parser.current_question \notin {None, <<>>}
            /\ Len(parser.current_options) >= 1
            /\ parser.current_answer \notin {None, <<>>}
        explanation ==
            IF parser.current_explanation \in {None, <<>>}
            THEN NoExplanation
            ELSE parser.current_explanation
    IN  /\ IF (atQuestionLine \/ atEnd) /\ complete
           THEN parser'.questions =
                    Append(parser.questions,
                           [question       |-> parser.current_question,
                            options        |-> parser.current_options,
                            correct_answer |-> parser.current_answer,
                            explanation    |-> explanation])
           ELSE parser'.questions = parser.questions
        /\ Len(parser'.questions) <= question_starts'

C20_EmitsOnlyCompleteQuestions == [][C20_Step]_vars

\* C20 witness: the parser returned after three new-question lines: the first
\* question was appended at the second new-question line with the default
\* explanation, the second one (no answer) was dropped at the third, and the
\* third (empty text) was dropped at the end of the text.
C20_Witness ==
    /\ pc = "PARSE_RETURNED"
    /\ question_starts = 3
    /\ Len(parser.questions) = 1
    /\ parser.questions[1].explanation = NoExplanation
    /\ parser.current_question = <<>>

-----------------------------------------------------------------------------
(* The call _get_fallback_questions(topic, num_questions, difficulty) *)

\* The largest num_questions of a direct call.
MaxFallbackQuestions == 3

\* Arguments of a direct call: any str as topic, the empty one included, and
\* any str or None as difficulty.
FallbackTopics == Topics \cup {<<>>}
FallbackDifficulties == Difficulties \cup {None, <<>>, <<"b","a","s","i","c">>}

InitFallback ==
    /\ pc = "FALLBACK_CALLED"
    /\ topic \in FallbackTopics
    /\ num_questions \in 0..MaxFallbackQuestions
    /\ difficulty \in FallbackDifficulties
    /\ prompt = NoPrompt
    /\ response = None
    /\ questions = <<>>
    /\ validated_questions = <<>>
    /\ result = NoResult
    /\ raised = FALSE
    /\ ai_calls = 0
    /\ wf = NoBlock
    /\ ScanIdle
    /\ AppIdle
    /\ ReqIdle
    /\ ChatIdle

\* Lines 394-458.  i % len(templates) raises ZeroDivisionError on an empty
\* table, and nothing in the function catches it.
FallbackReturned ==
    /\ pc = "FALLBACK_CALLED"
    /\ result' =
           IF num_questions > 0
                  /\ Len(difficulty_templates_get(topic, difficulty)) = 0
           THEN Propagated
           ELSE Returned(get_fallback_questions(topic, num_questions,
                                                difficulty))
    /\ pc' = "FALLBACK_RETURNED"
    /\ UNCHANGED <<topic, num_questions, difficulty, prompt, response,
                   questions, validated_questions, raised, ai_calls, wf,
                   scanVars, appVars, reqVars, chats>>

NextFallback == FallbackReturned

SpecFallback == InitFallback /\ [][NextFallback]_vars

\* The table the specification selects: the one of the difficulty, or the
\* Basic one for a difficulty that is not a level.
SelectedTable(tp, d) ==
    IF d \in DifficultyLevels THEN TemplateTable(tp, d)
    ELSE TemplateTable(tp, Basic)

\* C13: for every topic, every N >= 0 and every difficulty value the fallback
\* generator returns a list of exactly N questions and raises nothing; the
\* i-th one (from 0) is the template i mod len(templates) of the selected
\* table with the topic put in; each has exactly 4 options and its
\* correct_answer is its first option.
C13_FallbackReturnsNFromTable ==
    pc = "FALLBACK_RETURNED" =>
        /\ result.kind = "list"
        /\ Len(result.value) = num_questions
        /\ \A i \in 0..(num_questions - 1) :
               LET T == SelectedTable(topic, difficulty)
                   q == result.value[i + 1]
               IN  /\ q = T[(i % Len(T)) + 1]
                   /\ Len(q.options) = 4
                   /\ q.correct_answer = q.options[1]

\* C13 witness: a direct call with a difficulty that is no level and the
\* largest N has returned N questions.
C13_Witness ==
    /\ pc = "FALLBACK_RETURNED"
    /\ difficulty = <<"b","a","s","i","c">>
    /\ num_questions = MaxFallbackQuestions
    /\ result.kind = "list"
    /\ Len(result.value) = MaxFallbackQuestions

-----------------------------------------------------------------------------
(* Further properties of _generate_quiz_questions *)

\* C14 as stated: a call with a difficulty outside the four levels fails
\* with an error the caller observes.
C14_InvalidDifficultyRaises ==
    (Done /\ difficulty \notin DifficultyLevels) => result = Propagated

\* C14: prompt building succeeds for the four levels.  For any other
\* difficulty the lookup raises inside the try block before the completion
\* client is called; the except clause catches it, and the caller gets no
\* error but N fallback questions from the Basic table.
C14_InvalidDifficultyFallsBack ==
    /\ (difficulty \in DifficultyLevels /\ pc # "REQUESTED") =>
           /\ ~raised
           /\ prompt = PromptOf(topic, num_questions, difficulty)
    /\ (difficulty \notin DifficultyLevels /\ pc # "REQUESTED") =>
           /\ raised
           /\ prompt = NoPrompt
           /\ ai_calls = 0
           /\ pc \in {"FALLBACK", "DONE"}
    /\ (difficulty \notin DifficultyLevels /\ Done) =>
           result =
               Returned([i \in 1..num_questions |-> BasicTemplates(topic)[1]])

\* C14 witness: a call with the difficulty 'Expert' has returned a list.
C14_Witness ==
    /\ Done
    /\ difficulty = Expert
    /\ result.kind = "list"
    /\ Len(result.value) = num_questions

\* The options of q are pairwise distinct.
DistinctOptions(q) ==
    \A i, j \in 1..Len(q.options) : i # j => q.options[i] # q.options[j]

C18_AtMostOneCompletionCall ==
    /\ ai_calls \in {0, 1}
    /\ ai_calls = 1 <=> (pc \notin {"REQUESTED", "PROMPTED"} /\ ~raised)

\* C18 witness: a call has fallen back after an error string of the client,
\* having asked once.
C18_Witness ==
    /\ Done
    /\ response \in ErrorStrings
    /\ validated_questions = <<>>
    /\ ai_calls = 1

\* The stages in the order of the code.
StageRank(s) ==
    CASE s = "REQUESTED" -> 0
      [] s = "PROMPTED" -> 1
      [] s = "PARSED" -> 2
      [] s = "VALIDATED" -> 3
      [] s = "FALLBACK" -> 4
      [] s = "DONE" -> 5

\* One step of a call: the stage advances, the three stages are entered one
\* after the other, and FALLBACK is entered exactly when the validated list
\* is empty or the step raised.
C19_Step ==
    /\ StageRank(pc') > StageRank(pc)
    /\ pc' = "PROMPTED" => pc = "REQUESTED"
    /\ pc' = "PARSED" => pc = "PROMPTED"
    /\ pc' = "VALIDATED" => pc = "PARSED"
    /\ pc' = "FALLBACK" <=>
           \/ pc = "VALIDATED" /\ validated_questions = <<>>
           \/ ~raised /\ raised'

-----------------------------------------------------------------------------
(* The Quiz System page: app.py main(), Auth and QuizSystem._display_quiz *)

\* The registered users and the browser sessions open at the same time.
Users == {<<"a","l","i","c","e">>, <<"b","o","b">>}
Sessions == {"s1", "s2"}

\* The largest number of quizzes ever saved.
MaxQuizzes == 1

\* The page of the sidebar button "Quiz System" (app.py line 75).
QuizSystemPage == <<"Q","u","i","z"," ","S","y","s","t","e","m">>

\* The list _generate_quiz_questions returned for a custom quiz (app.py line
\* 298): one validated question.
GeneratedQuestions ==
    Validate(parse_text_response(JoinLines(BlockGood1)), 1)

\* QuizSystem._get_default_questions(topic) (quiz_system.py lines 36-86) for
\* one of the four topics of the selectbox of app.py lines 268-271, and for
\* a topic that is not a key of the dict; the questions have no explanation.
DataStructures == <<"D","a","t","a"," ","S","t","r","u","c","t","u","r","e","s">>
PreMadeTopics == {DataStructures}
get_default_questions(tp) ==
    IF tp = DataStructures THEN
        <<[question       |-> <<"W","h","i","c","h"," ","d","a","t","a"," ","s","t","r","u","c","t","u","r","e"," ","f","o","l","l","o","w","s"," ","L","I","F","O"," ","p","r","i","n","c","i","p","l","e","?">>,
           options        |-> <<<<"S","t","a","c","k">>, <<"Q","u","e","u","e">>, <<"L","i","s","t">>, <<"T","r","e","e">>>>,
           correct_answer |-> <<"S","t","a","c","k">>],
          [question       |-> <<"W","h","a","t"," ","i","s"," ","t","h","e"," ","t","i","m","e"," ","c","o","m","p","l","e","x","i","t","y"," ","o","f"," ","a","c","c","e","s","s","i","n","g"," ","a","n"," ","e","l","e","m","e","n","t"," ","i","n"," ","a"," ","h","a","s","h"," ","t","a","b","l","e","?">>,
           options        |-> <<<<"O","(","1",")">>, <<"O","(","n",")">>, <<"O","(","l","o","g"," ","n",")">>, <<"O","(","n","^","2",")">>>>,
           correct_answer |-> <<"O","(","1",")">>]>>
    ELSE <<>>

\* The radio of a question offers its options (quiz_system.py lines 493-499);
\* the first two of them are chosen from.
AnswerChoices(q) == {q.options[1], q.options[2]}

\* st.session_state.current_quiz is None, and a quiz dict (app.py lines
\* 274-280 and 301-307, auth.py lines 607-612).
\* current_quiz_id is None or missing: no row has this id.
NoQuizId == 0

\* The field row is no key of the dict: it records the row of the table the
\* dict was saved as or loaded from.
NoQuiz == [kind |-> "None"]
QuizDict(qs, sc, sub) ==
    [kind |-> "dict", questions |-> qs, score |-> sc, submitted |-> sub,
     row |-> NoQuizId]

\* st.session_state of a new browser session, after the first script run:
\* Auth.__init__ (auth.py lines 41-56) and app.py lines 36-43.  The keys
\* quiz_answer_<i> of the radios are one tuple, long enough for the longest
\* quiz.
NewSession ==
    [authentication_status |-> FALSE,
     username              |-> None,
     current_page          |-> None,
     current_quiz          |-> NoQuiz,
     current_quiz_id       |-> NoQuizId,
     creating_quiz         |-> FALSE,
     welcome_shown         |-> FALSE,
     quiz_answers          |-> <<None, None>>]

\* Auth.save_quiz (auth.py lines 545-561): a new row under a fresh id.
save_quiz(db, u, quiz) ==
    Append(db, [username  |-> u,
                questions |-> quiz.questions,
                score     |-> quiz.score,
                submitted |-> quiz.submitted,
                deleted   |-> FALSE])

\* Auth.get_quiz (auth.py lines 597-613).
get_quiz(db, id) ==
    IF id \in 1..Len(db) /\ ~db[id].deleted
    THEN [QuizDict(db[id].questions, db[id].score, db[id].submitted)
             EXCEPT !.row = id]
    ELSE NoQuiz

\* Auth.update_quiz_score (auth.py lines 623-629): UPDATE ... WHERE quiz_id.
update_quiz_score(db, id, sc) ==
    IF id \in 1..Len(db) /\ ~db[id].deleted
    THEN [db EXCEPT ![id].score = sc, ![id].submitted = TRUE]
    ELSE db

\* Auth.delete_quiz (auth.py lines 638-642); the id is never used again.
delete_quiz(db, id) == [db EXCEPT ![id].deleted = TRUE]

\* Auth.get_user_quizzes (auth.py lines 574-584): the ids of the rows of u.
get_user_quizzes(db, u) ==
    {id \in 1..Len(db) : ~db[id].deleted /\ db[id].username = u}

\* A variant of lines 530-537 that counts every question with an answer.
RECURSIVE CountCorrect_answered(_, _, _)
CountCorrect_answered(qs, answers, idx) ==
    IF idx > Len(qs) THEN 0
    ELSE (IF answers[idx] # None THEN 1 ELSE 0)
         + CountCorrect_answered(qs, answers, idx + 1)

\* Lines 530-537 of _display_quiz: the number of answers equal to the
\* correct answer.
RECURSIVE CountCorrect(_, _, _)
CountCorrect(qs, answers, idx) ==
    IF idx > Len(qs) THEN 0
    ELSE (IF answers[idx] = qs[idx].correct_answer THEN 1 ELSE 0)
         + CountCorrect(qs, answers, idx + 1)

\* Auth.logout (auth.py lines 261-268).
logout(ss) ==
    [ss EXCEPT !.authentication_status = FALSE, !.username = None]

\* One run of the script app.py main() with no button pressed, on the session
\* ss and the table db: what it renders and what it writes.
\*   login_page (auth.py lines 743-787) when nobody is logged in;
\*   the welcome text once (app.py lines 107-111);
\*   on the Quiz System page the creation form, the current quiz or the
\*   start text (app.py lines 257-326); _display_quiz shows a warning for
\*   a quiz with no questions (quiz_system.py lines 471-473) and writes the
\*   score of a submitted quiz again (lines 552-558).
RunScript(ss, db) ==
    IF ~ss.authentication_status THEN
        [ss |-> ss, db |-> db, screen |-> "login"]
    ELSE IF ~ss.welcome_shown THEN
        [ss |-> [ss EXCEPT !.welcome_shown = TRUE], db |-> db,
         screen |-> "welcome"]
    ELSE IF ss.current_page # QuizSystemPage THEN
        [ss |-> ss, db |-> db, screen |-> "page"]
    ELSE IF ss.creating_quiz THEN
        [ss |-> ss, db |-> db, screen |-> "create"]
    ELSE IF ss.current_quiz # NoQuiz /\ ss.current_quiz.questions = <<>> THEN
        [ss |-> ss, db |-> db, screen |-> "warning"]
    ELSE IF ss.current_quiz # NoQuiz THEN
        [ss |-> ss,
         db |-> IF ss.current_quiz.submitted /\ ss.current_quiz_id # NoQuizId
                THEN update_quiz_score(db, ss.current_quiz_id,
                                       ss.current_quiz.score)
                ELSE db,
         screen |-> "quiz"]
    ELSE
        [ss |-> ss, db |-> db, screen |-> "home"]

\* The handler of a button changed the session s to ss and the table to db,
\* and st.rerun() runs the script again.
Rerun(s, ss, db) ==
    LET run == RunScript(ss, db)
    IN  /\ session_state' = [session_state EXCEPT ![s] = run.ss]
        /\ quizzes' = run.db
        /\ screen' = [screen EXCEPT ![s] = run.screen]
        /\ UNCHANGED <<pc, topic, num_questions, difficulty, prompt, response,
                       questions, validated_questions, result, raised,
                       ai_calls, wf, scanVars, reqVars,
                       chats>>

\* The sidebar of the Quiz System page is on the screen.
QuizSidebar(s) == screen[s] \in {"create", "quiz", "warning", "home"}

InitApp ==
    /\ quizzes = <<>>
    /\ session_state = [s \in Sessions |-> NewSession]
    /\ screen = [s \in Sessions |-> "login"]
    /\ pc = "APP"
    /\ topic = None
    /\ num_questions = 0
    /\ difficulty = None
    /\ prompt = NoPrompt
    /\ response = None
    /\ questions = <<>>
    /\ validated_questions = <<>>
    /\ result = NoResult
    /\ raised = FALSE
    /\ ai_calls = 0
    /\ wf = NoBlock
    /\ ScanIdle
    /\ ReqIdle
    /\ ChatIdle

\* The login form with the password of u (auth.py lines 217-240, 758-762).
Login(s) ==
    /\ screen[s] = "login"
    /\ \E u \in Users :
           Rerun(s, [session_state[s] EXCEPT !.authentication_status = TRUE,
                                             !.username = u,
                                             !.welcome_shown = FALSE],
                 quizzes)

\* The button "Logout" (app.py lines 59-61).
Logout(s) ==
    /\ screen[s] # "login"
    /\ Rerun(s, logout(session_state[s]), quizzes)

\* The sidebar button "Quiz System" (app.py lines 74-76).  The script reruns
\* at once, and in the new run previous_page and page are both the new page:
\* the reset of lines 89-94 is not reached.
OpenQuizPage(s) ==
    /\ screen[s] # "login"
    /\ Rerun(s, [session_state[s] EXCEPT !.current_page = QuizSystemPage],
             quizzes)

\* The sidebar button "New Quiz" (app.py lines 217-221).
NewQuiz(s) ==
    /\ QuizSidebar(s)
    /\ Rerun(s, [session_state[s] EXCEPT !.creating_quiz = TRUE,
                                         !.current_quiz = NoQuiz,
                                         !.current_quiz_id = NoQuizId],
             quizzes)

\* A variant of lines 236-244 without line 242.
LoadQuiz_noid(s) ==
    /\ QuizSidebar(s)
    /\ \E id \in get_user_quizzes(quizzes, session_state[s].username) :
           Rerun(s, [session_state[s] EXCEPT
                         !.current_quiz = get_quiz(quizzes, id),
                         !.creating_quiz = FALSE],
                 quizzes)

\* The button of a saved quiz of the user (app.py lines 224-244).
LoadQuiz(s) ==
    /\ QuizSidebar(s)
    /\ \E id \in get_user_quizzes(quizzes, session_state[s].username) :
           Rerun(s, [session_state[s] EXCEPT
                         !.current_quiz = get_quiz(quizzes, id),
                         !.current_quiz_id = id,
                         !.creating_quiz = FALSE],
                 quizzes)

\* The delete button of a saved quiz of the user (app.py lines 248-254).
DeleteQuiz(s) ==
    /\ QuizSidebar(s)
    /\ \E id \in get_user_quizzes(quizzes, session_state[s].username) :
           Rerun(s,
                 IF session_state[s].current_quiz_id = id
                 THEN [session_state[s] EXCEPT !.current_quiz = NoQuiz,
                                               !.current_quiz_id = NoQuizId]
                 ELSE session_state[s],
                 delete_quiz(quizzes, id))

\* The button "Generate Quiz" with a topic (app.py lines 295-312): the quiz
\* is saved with score 0 and submitted False.
GenerateQuiz(s) ==
    /\ screen[s] = "create"
    /\ Len(quizzes) < MaxQuizzes
    /\ LET quiz == QuizDict(GeneratedQuestions, 0, FALSE)
       IN  Rerun(s, [session_state[s] EXCEPT
                         !.current_quiz =
                             [quiz EXCEPT !.row = Len(quizzes) + 1],
                         !.current_quiz_id = Len(quizzes) + 1,
                         !.creating_quiz = FALSE],
                 save_quiz(quizzes, session_state[s].username, quiz))

\* A radio of the quiz on the screen (quiz_system.py lines 493-499), which is
\* disabled once the quiz is submitted.
ChooseAnswer(s) ==
    /\ screen[s] = "quiz"
    /\ ~session_state[s].current_quiz.submitted
    /\ \E i \in 1..Len(session_state[s].current_quiz.questions) :
       \E c \in AnswerChoices(session_state[s].current_quiz.questions[i]) :
           Rerun(s, [session_state[s] EXCEPT !.quiz_answers[i] = c], quizzes)

\* The button "Submit Quiz" (quiz_system.py lines 523-549).
SubmitQuiz(s) ==
    /\ screen[s] = "quiz"
    /\ ~session_state[s].current_quiz.submitted
    /\ LET ss == session_state[s]
           current_score ==
               CountCorrect(ss.current_quiz.questions, ss.quiz_answers, 1)
       IN  Rerun(s, [ss EXCEPT !.current_quiz.score = current_score,
                               !.current_quiz.submitted = TRUE],
                 IF ss.current_quiz_id # NoQuizId
                 THEN update_quiz_score(quizzes, ss.current_quiz_id,
                                        current_score)
                 ELSE quizzes)

\* The button "Start New Quiz" (quiz_system.py lines 568-578): the answers
\* and current_quiz are deleted, current_quiz_id is not.
StartNewQuiz(s) ==
    /\ screen[s] = "quiz"
    /\ session_state[s].current_quiz.submitted
    /\ Rerun(s, [session_state[s] EXCEPT !.quiz_answers = <<None, None>>,
                                         !.current_quiz = NoQuiz],
             quizzes)

\* Any other interaction that only runs the script again.
Render(s) ==
    /\ screen[s] # "login"
    /\ Rerun(s, session_state[s], quizzes)

NextApp ==
    \E s \in Sessions :
        \/ Login(s)
        \/ Logout(s)
        \/ OpenQuizPage(s)
        \/ NewQuiz(s)
        \/ LoadQuiz(s)
        \/ DeleteQuiz(s)
        \/ GenerateQuiz(s)
        \/ ChooseAnswer(s)
        \/ SubmitQuiz(s)
        \/ StartNewQuiz(s)
        \/ Render(s)

SpecApp == InitApp /\ [][NextApp]_vars

\* C15: a row of the table quizzes is created with score 0 and submitted
\* false; its score and flag change only by a submission; and once the row
\* is stored as submitted, no later step of any session stores another score
\* or flag in it.
C15_Step ==
    \A id \in 1..Len(quizzes') :
        IF id > Len(quizzes)
        THEN quizzes'[id].score = 0 /\ ~quizzes'[id].submitted
        ELSE /\ quizzes[id].submitted =>
                    /\ quizzes'[id].submitted
                    /\ quizzes'[id].score = quizzes[id].score
             /\ quizzes'[id].score # quizzes[id].score =>
                    quizzes'[id].submitted

C15_ScoreWrittenOnce == [][C15_Step]_vars

\* C16: the quiz on the screen of a session, which the button "Submit Quiz"
\* of that screen updates, is a quiz the logged-in user of the session
\* created.
C16_OwnQuizOnly ==
    \A s \in Sessions :
        (screen[s] = "quiz"
            /\ session_state[s].current_quiz_id \in 1..Len(quizzes)) =>
            quizzes[session_state[s].current_quiz_id].username =
                session_state[s].username


\* What a raw line looks like, read off its characters.
LooksBlank(raw) == \A i \in 1..Len(raw) : raw[i] \in Whitespace
LooksLikeQuestion(raw) ==
    LET s == Strip(raw)
    IN  s # <<>> /\ s[1] \in Digits /\ "." \in Range(s)
LeadingMarker(raw) ==
    LET s == Strip(raw)
    IN  /\ Len(s) >= 2
        /\ s[1] \in {"a", "b", "c", "d", "A", "B", "C", "D"}
        /\ s[2] = ")"
LooksLikeAnswer(raw) ==
    StartsWith(Strip(raw), <<"A","n","s","w","e","r",":">>)
        \/ StartsWith(Strip(raw), <<"C","o","r","r","e","c","t"," ","a","n","s","w","e","r",":">>)
LooksLikeExplanation(raw) == StartsWith(Strip(raw), <<"E","x","p","l","a","n","a","t","i","o","n",":">>)

\* C21: every line read has the effect of exactly one rule: a blank line and
\* a line of no rule change nothing; a line whose first character is a digit
\* and which contains '.' starts a new question (the text behind the first
\* '.', no options, no answer, no explanation), wherever it stands, also
\* between the options and the answer of the question before; an option line
\* changes the options only, an answer line the answer only, an explanation
\* line the explanation only.
C21_Step ==
    lines_read' = lines_read + 1 =>
        LET raw == raw_line'
            s == Strip(raw)
            others(f) ==
                \A g \in DOMAIN parser : g # f => parser'[g] = parser[g]
        IN  IF LooksBlank(raw) THEN parser' = parser
            ELSE IF LooksLikeQuestion(raw) THEN
                /\ parser'.current_question = Strip(AfterFirst(s, "."))
                /\ parser'.current_options = <<>>
                /\ parser'.current_answer = None
                /\ parser'.current_explanation = None
            ELSE IF LeadingMarker(raw) /\ Len(s) > 2 THEN
                /\ others("current_options")
                /\ Len(parser'.current_options) =
                       Len(parser.current_options) + 1
            ELSE IF LooksLikeAnswer(raw) THEN
                /\ others("current_answer")
                /\ parser'.current_answer # None
            ELSE IF LooksLikeExplanation(raw) THEN
                /\ others("current_explanation")
                /\ parser'.current_explanation # None
            ELSE parser' = parser

C21_OneRulePerLine == [][C21_Step]_vars

\* C21 witness: a new-question line was read right behind an option of a
\* question that had no answer yet: that question is gone, the new one has
\* no options.
C21_Witness ==
    /\ pc = "SCANNING"
    /\ lines_read = 3
    /\ question_starts = 2
    /\ raw_line = <<"2","."," ","R","?">>
    /\ parser.questions = <<>>
    /\ parser.current_question = <<"R","?">>
    /\ parser.current_options = <<>>
    /\ parser.current_answer = None

\* C22 as stated: every line that starts with one of the eight option
\* markers appends exactly one entry, the trimmed text behind the marker, a
\* line made of the marker alone included.
C22_EveryMarkerLineAppends ==
    [][lines_read' = lines_read + 1 /\ LeadingMarker(raw_line') =>
           parser'.current_options =
               Append(parser.current_options,
                      Strip(SubSeq(Strip(raw_line'), 3,
                                   Len(Strip(raw_line')))))]_vars

\* C22, amended: a line that starts with one of the eight option markers and
\* is longer than the marker once trimmed appends exactly one entry, the
\* trimmed text behind the marker, which is not empty; a line made of the
\* marker alone appends nothing and changes nothing.
C22_Step ==
    lines_read' = lines_read + 1 /\ LeadingMarker(raw_line') =>
        LET s == Strip(raw_line')
        IN  IF Len(s) > 2
            THEN /\ parser'.current_options =
                        Append(parser.current_options,
                               Strip(SubSeq(s, 3, Len(s))))
                 /\ Strip(SubSeq(s, 3, Len(s))) # <<>>
            ELSE parser' = parser

C22_MarkerLineWithTextAppends == [][C22_Step]_vars

\* C22 witness: behind a question line and an option with a text, a line
\* made of a marker alone was read, and the options are still that one.
C22_Witness ==
    /\ pc = "SCANNING"
    /\ lines_read = 3
    /\ raw_line = <<"a",")">>
    /\ parser.current_question = <<"Q","?">>
    /\ parser.current_options = <<<<"X">>>>

-----------------------------------------------------------------------------
(* The answer lines of _parse_text_response *)

\* Answer texts that do not start with an option marker.
AnswerValues == {<<>>, <<"X">>, <<"Y">>, <<"B">>, <<"x",":"," ","y">>}

\* The three ways of writing an answer line.
AnswerForms == {"marked", "plain", "correct"}
AnswerForm(form, m, x) ==
    CASE form = "marked" -> <<"A","n","s","w","e","r",":"," ">> \o m \o <<" ">> \o x
      [] form = "plain" -> <<"A","n","s","w","e","r",":"," ">> \o x
      [] form = "correct" -> <<"C","o","r","r","e","c","t"," ","a","n","s","w","e","r",":"," ">> \o x

\* The lines of a question and its two options, read before the answer.
QuestionHead == <<<<"1","."," ","Q","?">>, <<"a",")"," ","X">>, <<"b",")"," ","Y">>>>

InitAnswer ==
    /\ pc = "SCANNING"
    /\ parser = ParseLines(ParserStart, QuestionHead, 1)
    /\ parser_ins = ParseLines(ParserStart, QuestionHead, 1)
    /\ inserted = FALSE
    /\ raw_line = QuestionHead[Len(QuestionHead)]
    /\ lines_read = Len(QuestionHead)
    /\ question_starts = 1
    /\ topic = None
    /\ num_questions = 0
    /\ difficulty = None
    /\ prompt = NoPrompt
    /\ response = None
    /\ questions = <<>>
    /\ validated_questions = <<>>
    /\ result = NoResult
    /\ raised = FALSE
    /\ ai_calls = 0
    /\ wf = NoBlock
    /\ AppIdle
    /\ ReqIdle
    /\ ChatIdle

\* Lines 138-144 on 'Answer: <marker> X'.
ReadMarkedAnswer ==
    \E m \in OptionMarkers, x \in AnswerValues :
        ReadLine(AnswerForm("marked", m, x))

\* Lines 138-144 on 'Answer: X'.
ReadPlainAnswer ==
    \E x \in AnswerValues : ReadLine(AnswerForm("plain", <<>>, x))

\* Lines 138-144 on 'Correct answer: X'.
ReadCorrectAnswer ==
    \E x \in AnswerValues : ReadLine(AnswerForm("correct", <<>>, x))

NextAnswer ==
    \/ ReadMarkedAnswer
    \/ ReadPlainAnswer
    \/ ReadCorrectAnswer
    \/ EndOfText

SpecAnswer == InitAnswer /\ [][NextAnswer]_vars

\* C23 as stated: for every answer text X that does not start with an option
\* marker, the lines 'Answer: <marker> X', 'Answer: X' and
\* 'Correct answer: X' all set the answer of the question in progress to X.
C23_AllFormsSetAnswer ==
    [][\A f \in AnswerForms, m \in OptionMarkers, x \in AnswerValues :
           lines_read' = lines_read + 1 /\ raw_line' = AnswerForm(f, m, x)
               => parser'.current_answer = x]_vars

\* C23, amended: for every non-empty answer text X that does not start with
\* an option marker, the three forms set the answer to X and change nothing
\* else: the marker is dropped and is compared with nothing.  With an empty
\* X, 'Answer: <marker>' sets the answer to the marker itself and the two
\* other forms set it to the empty text.  The answer of the question that is
\* appended is the one of the last answer line.
C23_Step ==
    /\ \A f \in AnswerForms, m \in OptionMarkers, x \in AnswerValues :
           lines_read' = lines_read + 1 /\ raw_line' = AnswerForm(f, m, x)
               => /\ parser'.current_answer =
                         IF x = <<>> /\ f = "marked" THEN m ELSE x
                  /\ parser' = [parser EXCEPT
                                    !.current_answer = parser'.current_answer]
    /\ pc = "SCANNING" /\ pc' = "PARSE_RETURNED" /\ questions' # <<>>
           => questions'[1].correct_answer = parser.current_answer

C23_NonEmptyAnswerTextIsKept == [][C23_Step]_vars

\* C23 witness: two answer lines were read, the last one 'Answer: b) Y', and
\* the question was appended with the answer Y.
C23_Witness ==
    /\ pc = "PARSE_RETURNED"
    /\ lines_read = Len(QuestionHead) + 2
    /\ raw_line = <<"A","n","s","w","e","r",":"," ","b",")"," ","Y">>
    /\ Len(questions) = 1
    /\ questions[1].correct_answer = <<"Y">>
    /\ questions[1].options = <<<<"X">>, <<"Y">>>>

-----------------------------------------------------------------------------
(* The parser on a text of several questions *)

\* The lines such a text is made of.
TextLineSet ==
    {<<"1","."," ","Q","?">>, <<"2","."," ","R","?">>, <<"a",")"," ","X">>, <<"b",")"," ","Y">>, <<"a",")">>, <<"A","n","s","w","e","r",":"," ","X">>,
     <<"E","x","p","l","a","n","a","t","i","o","n",":"," ","E">>}

\* The largest number of lines of such a text.
MaxTextLines == 5

Texts == UNION {[1..n -> TextLineSet] : n \in 0..MaxTextLines}

InitText ==
    /\ \E ls \in Texts :
           /\ wf = [used |-> TRUE, lines |-> ls]
           /\ response = JoinLines(ls)
    /\ pc = "PARSE_CALLED"
    /\ questions = <<>>
    /\ topic = None
    /\ num_questions = 0
    /\ difficulty = None
    /\ prompt = NoPrompt
    /\ validated_questions = <<>>
    /\ result = NoResult
    /\ raised = FALSE
    /\ ai_calls = 0
    /\ ScanIdle
    /\ AppIdle
    /\ ReqIdle
    /\ ChatIdle

SpecText == InitText /\ [][NextParse]_vars

\* The lines behind the new-question line at position i, up to the next
\* new-question line or the end of the text.
OwnLines(ls, i) ==
    LET later == {j \in (i + 1)..Len(ls) : LooksLikeQuestion(ls[j])}
        stop == IF later = {} THEN Len(ls) + 1
                ELSE CHOOSE j \in later : \A k \in later : j <= k
    IN  SubSeq(ls, i + 1, stop - 1)

LooksLikeOption(raw) == LeadingMarker(raw) /\ Len(Strip(raw)) > 2

\* The candidate made of the new-question line at position i and of its own
\* lines alone: the texts of its option lines in order, the text of its last
\* answer line, the text of its last explanation line.
OwnCandidate(ls, i) ==
    LET own == OwnLines(ls, i)
        opts == SelectSeq(own, LooksLikeOption)
        answers == SelectSeq(own, LooksLikeAnswer)
        expls == SelectSeq(own, LooksLikeExplanation)
        expl == IF expls = <<>> THEN <<>>
                ELSE Strip(AfterFirst(Strip(expls[Len(expls)]), ":"))
    IN  [question       |-> Strip(AfterFirst(Strip(ls[i]), ".")),
         options        |-> [k \in 1..Len(opts) |->
                                Strip(SubSeq(Strip(opts[k]), 3,
                                             Len(Strip(opts[k]))))],
         correct_answer |-> IF answers = <<>> THEN <<>>
                            ELSE AnswerOf(Strip(answers[Len(answers)])),
         explanation    |-> IF expl = <<>> THEN NoExplanation ELSE expl]

\* The candidates of the new-question lines from position i on that have a
\* text, an option and an answer.
RECURSIVE OwnCandidates(_, _)
OwnCandidates(ls, i) ==
    IF i > Len(ls) THEN <<>>
    ELSE IF LooksLikeQuestion(ls[i])
             /\ OwnCandidate(ls, i).question # <<>>
             /\ OwnCandidate(ls, i).options # <<>>
             /\ OwnCandidate(ls, i).correct_answer # <<>>
         THEN <<OwnCandidate(ls, i)>> \o OwnCandidates(ls, i + 1)
         ELSE OwnCandidates(ls, i + 1)

\* C29: the options, the answer and the explanation of every candidate the
\* parser returns come from the lines behind its own new-question line and
\* before the next one, and from no other line; every option of a returned
\* candidate is a non-empty text.
C29_FieldsComeFromOwnLines ==
    pc = "PARSE_RETURNED" =>
        /\ questions = OwnCandidates(wf.lines, 1)
        /\ \A k \in 1..Len(questions) :
               \A o \in 1..Len(questions[k].options) :
                   questions[k].options[o] # <<>>

\* C29 witness: the first question has an option and an answer, the second
\* one has an option only and the text ends: one candidate is returned, and
\* the answer of the first question did not pass to the second.
C29_Witness ==
    /\ pc = "PARSE_RETURNED"
    /\ wf.lines = <<<<"1","."," ","Q","?">>, <<"a",")"," ","X">>, <<"A","n","s","w","e","r",":"," ","X">>, <<"2","."," ","R","?">>, <<"b",")"," ","Y">>>>
    /\ Len(questions) = 1
    /\ questions[1].question = <<"Q","?">>
    /\ questions[1].options = <<<<"X">>>>

-----------------------------------------------------------------------------
(* ChatInterface._make_request of src/src/chat_interface.py *)

\* The default of the parameter max_retries (line 34).
DefaultMaxRetries == 3

\* The largest argument max_retries.
MaxRetriesArg == 3

\* 2 ** n
RECURSIVE Pow2(_)
Pow2(n) == IF n = 0 THEN 1 ELSE 2 * Pow2(n - 1)

\* What one requests.post (lines 47-52) comes back with: a response with a
\* status code and a body that is JSON or not, or an exception.
Response(code, json) == [kind |-> "response", status_code |-> code, json |-> json]
TimeoutRaised == [kind |-> "Timeout"]
RequestExceptionRaised == [kind |-> "RequestException"]

\* Status codes that lines 55-75 do not name.
OtherStatusCodes == {500}

\* str(e) of the JSONDecodeError of response.json().
ErrNetworkNotJson ==
    <<"N","e","t","w","o","r","k"," ","e","r","r","o","r"," ","o","c","c","u","r","r","e","d",":"," ","E","x","p","e","c","t","i","n","g"," ","v","a","l","u","e",":"," ","l","i","n","e"," ","1"," ","c","o","l","u","m","n"," ","1"," ","(","c","h","a","r"," ","0",")">>

\* response.json() of the n-th response of the call.
JsonBody(n) == [kind |-> "json", response |-> n]

\* The call fell off the loop of line 45 and returned None.
ReturnedNone == [kind |-> "None"]

InitRequest ==
    /\ max_retries \in 0..MaxRetriesArg
    /\ attempt = 0
    /\ http_requests = <<>>
    /\ slept = <<>>
    /\ pc = "REQUEST"
    /\ result = NoResult
    /\ raised = FALSE
    /\ topic = None
    /\ num_questions = 0
    /\ difficulty = None
    /\ prompt = NoPrompt
    /\ response = None
    /\ questions = <<>>
    /\ validated_questions = <<>>
    /\ ai_calls = 0
    /\ wf = NoBlock
    /\ ScanIdle
    /\ AppIdle
    /\ ChatIdle

\* Lines 47-52: requests.post of the iteration attempt comes back with r.
Post(r) ==
    /\ pc = "REQUEST"
    /\ attempt < max_retries
    /\ http_requests' = Append(http_requests, r)
    /\ UNCHANGED <<max_retries, topic, num_questions, difficulty, prompt,
                   response, questions, validated_questions, ai_calls, wf,
                   scanVars, appVars, chats>>

\* continue: the next iteration of the loop of line 45.
Continue ==
    /\ attempt' = attempt + 1
    /\ UNCHANGED <<pc, result, raised>>

\* return s
Return(s) ==
    /\ result' = s
    /\ pc' = "REQUEST_RETURNED"
    /\ UNCHANGED <<attempt, raised>>

\* Lines 55-56: status 200 with a JSON body.
Post200 ==
    /\ Post(Response(200, TRUE))
    /\ Return(JsonBody(Len(http_requests) + 1))
    /\ UNCHANGED slept

\* Lines 55-56 and 84-87: status 200 with a body that is not JSON, and a
\* requests library whose JSONDecodeError is a RequestException.
Post200NotJsonCaught ==
    /\ Post(Response(200, FALSE))
    /\ IF attempt < max_retries - 1
       THEN Continue
       ELSE Return(ReturnedText(ErrNetworkNotJson))
    /\ UNCHANGED slept

\* Lines 55-56: status 200 with a body that is not JSON, and a requests
\* library whose response.json() raises a plain ValueError, which no except
\* clause of lines 80-87 catches.
Post200NotJsonRaised ==
    /\ Post(Response(200, FALSE))
    /\ raised' = TRUE
    /\ result' = Propagated
    /\ pc' = "REQUEST_RAISED"
    /\ UNCHANGED <<attempt, slept>>

\* A variant of lines 59-65 without the test of line 60.
Post503_alwaysretry ==
    /\ Post(Response(503, FALSE))
    /\ slept' = Append(slept, (attempt + 1) * 2)
    /\ Continue

\* Lines 59-65: status 503.
Post503 ==
    /\ Post(Response(503, FALSE))
    /\ IF attempt < max_retries - 1
       THEN slept' = Append(slept, (attempt + 1) * 2) /\ Continue
       ELSE UNCHANGED slept /\ Return(ReturnedText(ErrServiceUnavailable))

\* Lines 67-68: status 403.
Post403 ==
    /\ Post(Response(403, FALSE))
    /\ Return(ReturnedText(ErrInvalidToken))
    /\ UNCHANGED slept

\* A variant of lines 70-75 that sleeps before it tests the attempt.
Post429_sleepfirst ==
    /\ Post(Response(429, FALSE))
    /\ slept' = Append(slept, Pow2(attempt))
    /\ IF attempt < max_retries - 1
       THEN Continue
       ELSE Return(ReturnedText(ErrTooManyRequests))

\* Lines 70-75: status 429.
Post429 ==
    /\ Post(Response(429, FALSE))
    /\ IF attempt < max_retries - 1
       THEN slept' = Append(slept, Pow2(attempt)) /\ Continue
       ELSE UNCHANGED slept /\ Return(ReturnedText(ErrTooManyRequests))

\* Line 78: any other status.
PostOtherStatus ==
    /\ \E code \in OtherStatusCodes, json \in BOOLEAN :
           Post(Response(code, json))
    /\ Return(ReturnedText(ErrStatusCode))
    /\ UNCHANGED slept

\* Lines 80-83: requests.post raised Timeout.
PostTimeout ==
    /\ Post(TimeoutRaised)
    /\ IF attempt < max_retries - 1
       THEN Continue
       ELSE Return(ReturnedText(ErrTimeout))
    /\ UNCHANGED slept

\* Lines 84-87: requests.post raised another RequestException.
PostRequestException ==
    /\ Post(RequestExceptionRaised)
    /\ IF attempt < max_retries - 1
       THEN Continue
       ELSE Return(ReturnedText(ErrNetwork))
    /\ UNCHANGED slept

\* Line 45 with range(max_retries) exhausted: the function ends without a
\* return statement.
RangeExhausted ==
    /\ pc = "REQUEST"
    /\ attempt >= max_retries
    /\ result' = ReturnedNone
    /\ pc' = "REQUEST_RETURNED"
    /\ UNCHANGED <<topic, num_questions, difficulty, prompt, response,
                   questions, validated_questions, raised, ai_calls, wf,
                   scanVars, appVars, reqVars, chats>>

NextRequest ==
    \/ Post200
    \/ Post200NotJsonCaught
    \/ Post200NotJsonRaised
    \/ Post503
    \/ Post403
    \/ Post429
    \/ PostOtherStatus
    \/ PostTimeout
    \/ PostRequestException
    \/ RangeExhausted

SpecRequest == InitRequest /\ [][NextRequest]_vars

\* The call runs on: nothing but the call itself decides when the next
\* statement is executed.
SpecRequestLive == SpecRequest /\ WF_vars(NextRequest)

RequestDone == pc \in {"REQUEST_RETURNED", "REQUEST_RAISED"}

\* The error strings of lines 65, 68, 75, 78, 83 and 87.
RequestErrors ==
    {ReturnedText(s) : s \in {ErrServiceUnavailable, ErrInvalidToken,
                              ErrTooManyRequests, ErrStatusCode, ErrTimeout,
                              ErrNetwork, ErrNetworkNotJson}}

Is200(r) == r.kind = "response" /\ r.status_code = 200

C24_Safe ==
    max_retries = DefaultMaxRetries =>
        /\ Len(http_requests) <= 3
        /\ \A i \in 1..(Len(http_requests) - 1) :
               ~(Is200(http_requests[i]) /\ http_requests[i].json)
        /\ pc = "REQUEST_RETURNED" =>
               \/ result \in RequestErrors
               \/ /\ result = JsonBody(Len(http_requests))
                  /\ http_requests[Len(http_requests)] = Response(200, TRUE)
        /\ pc = "REQUEST_RAISED" =>
               http_requests[Len(http_requests)] = Response(200, FALSE)

Retryable(r) ==
    \/ r \in {TimeoutRaised, RequestExceptionRaised, Response(200, FALSE)}
    \/ r.kind = "response" /\ r.status_code \in {503, 429}

\* The error string of an outcome that is not a 200 response with a JSON
\* body.
ErrorOf(r) ==
    IF r = TimeoutRaised THEN ErrTimeout
    ELSE IF r = RequestExceptionRaised THEN ErrNetwork
    ELSE IF r.status_code = 200 THEN ErrNetworkNotJson
    ELSE IF r.status_code = 503 THEN ErrServiceUnavailable
    ELSE IF r.status_code = 403 THEN ErrInvalidToken
    ELSE IF r.status_code = 429 THEN ErrTooManyRequests
    ELSE ErrStatusCode

\* C25: another attempt follows only a 503 response, a 429 response, a
\* timeout or a network error (the failure of response.json() that the
\* except clause of line 84 catches is one), and only when attempts are
\* left; a 403 response or any other status that is not 200 ends the call
\* with its error string; when no attempt is left the call returns the error
\* string of the failure of this last attempt.  The call sleeps
\* 2 * (attempt + 1) seconds behind a 503 response and 2 ** attempt seconds
\* behind a 429 response when another attempt follows, and at no other
\* moment.
C25_Step ==
    Len(http_requests') = Len(http_requests) + 1 =>
        LET r == http_requests'[Len(http_requests')]
            last == attempt = max_retries - 1
            again == attempt' = attempt + 1 /\ pc' = "REQUEST"
        IN  /\ again => Retryable(r) /\ ~last
            /\ (r.kind = "response" /\ r.status_code \notin {200, 503, 429})
                   => pc' = "REQUEST_RETURNED"
                          /\ result' = ReturnedText(ErrorOf(r))
            /\ (last /\ r # Response(200, TRUE) /\ pc' = "REQUEST_RETURNED")
                   => result' = ReturnedText(ErrorOf(r))
            /\ slept' =
                   IF again /\ r.kind = "response" /\ r.status_code = 503
                   THEN Append(slept, 2 * (attempt + 1))
                   ELSE IF again /\ r.kind = "response" /\ r.status_code = 429
                   THEN Append(slept, Pow2(attempt))
                   ELSE slept

-----------------------------------------------------------------------------
(* The chats of src/src/auth.py *)

\* A row of the table chats with the rows of chat_messages of its chat_id, in
\* timestamp order.  chat_id is the position of the row in chats; last_updated
\* counts the writes; deleted rows stay, marked, so that no chat_id is given
\* twice.
NewChatTitle == <<"N","e","w"," ","C","h","a","t">>
ChatRow(username, now) ==
    [username     |-> username,
     title        |-> NewChatTitle,
     last_updated |-> now,
     messages     |-> <<>>,
     deleted      |-> FALSE]

\* datetime.now(): later than every timestamp stored so far.
Now(db) ==
    LET stamps == {db[i].last_updated : i \in DOMAIN db} \cup {0}
    IN  1 + CHOOSE t \in stamps : \A u \in stamps : u <= t

\* Auth.create_new_chat(username): the table afterwards; the new chat_id is
\* its length.
create_new_chat(db, username) == Append(db, ChatRow(username, Now(db)))

\* Auth.save_message(chat_id, role, content)
save_message(db, chat_id, role, content) ==
    [db EXCEPT ![chat_id] =
        [@ EXCEPT !.messages = Append(@, [role |-> role, content |-> content]),
                  !.last_updated = IF db[chat_id].deleted THEN @ ELSE Now(db)]]

\* Auth.delete_chat(chat_id)
delete_chat(db, chat_id) ==
    [db EXCEPT ![chat_id] = [@ EXCEPT !.deleted = TRUE, !.messages = <<>>]]

\* s.split(c), for a one-character c
RECURSIVE SplitOn(_, _)
SplitOn(s, c) ==
    IF ~Contains(s, c)
    THEN <<s>>
    ELSE LET i == FirstIndex(s, c)
         IN  <<SubSeq(s, 1, i - 1)>> \o SplitOn(SubSeq(s, i + 1, Len(s)), c)

\* s.split(): the words of s
RECURSIVE SplitWords(_)
SplitWords(s) ==
    LET t == LStrip(s)
        ends == {i \in 1..Len(t) : t[i] \in Whitespace}
        n == IF ends = {} THEN Len(t) + 1
             ELSE CHOOSE i \in ends : \A j \in ends : i <= j
    IN  IF t = <<>> THEN <<>>
        ELSE <<SubSeq(t, 1, n - 1)>> \o SplitWords(SubSeq(t, n, Len(t)))

\* ' '.join(words)
RECURSIVE JoinWords(_)
JoinWords(words) ==
    IF words = <<>> THEN <<>>
    ELSE IF Len(words) = 1 THEN words[1]
    ELSE words[1] \o <<" ">> \o JoinWords(Tail(words))

\* xs[:n]
Take(xs, n) == SubSeq(xs, 1, IF Len(xs) < n THEN Len(xs) ELSE n)

\* The numbers of lines 439 and 446 (words) and 441-442 and 448-449
\* (characters).
TitleWords == 6
TitleLength == 30

\* Lines 439-443 and 446-449: the first words of text, cut when too long.
ShortTitle(text) ==
    LET title == JoinWords(Take(SplitWords(text), TitleWords))
    IN  IF Len(title) > TitleLength
        THEN Take(title, TitleLength) \o <<".",".",".">>
        ELSE title

NonEmpty(s) == s # <<>>

\* The local title at line 452, for the first user message content: the
\* title, or Unbound when no assignment to title was executed.
Unbound == [kind |-> "unbound"]
TitleAtUpdate(content) ==
    LET message == Strip(content)
        parts == SplitOn(message, "?")  \* message.split("?")
        question_parts ==
            SelectSeq([i \in 1..Len(parts) |-> Strip(parts[i])], NonEmpty)
    IN  IF Contains(message, "?")
        THEN IF question_parts # <<>>
             THEN ShortTitle(question_parts[1]) \o <<"?">>
             ELSE Unbound
        ELSE ShortTitle(message)

\* Lines 425-428: the content of the first user message of the chat.
UserMessages(db, chat_id) ==
    SelectSeq(db[chat_id].messages, LAMBDA m : m.role = "user")

\* Auth.generate_chat_title(chat_id): the table afterwards and what the call
\* returned; reading the unbound local at line 452 raises UnboundLocalError,
\* which the try of line 423 has no except clause for.
generate_chat_title(db, chat_id) ==
    IF UserMessages(db, chat_id) = <<>>
    THEN [db |-> db, result |-> ReturnedText(NewChatTitle)]
    ELSE LET title == TitleAtUpdate(UserMessages(db, chat_id)[1].content)
         IN  IF title = Unbound
             THEN [db |-> db, result |-> Propagated]
             ELSE [db     |-> IF db[chat_id].deleted THEN db
                              ELSE [db EXCEPT ![chat_id].title = title],
                   result |-> ReturnedText(title)]

\* The pieces a first message is made of, and the largest number of pieces.
MessageParts ==
    {<<"H","i">>, <<" ">>, <<"?">>, <<"a","b","c","d","e","f","g","h","i","j","k","l","m","n","o","p","q","r","s","t","u","v","w","x","y","z","a","b","c","d","e","f","g","h">>,
     <<"a"," ","b"," ","c"," ","d"," ","e"," ","f"," ","g">>}
MaxMessageParts == 3

RECURSIVE ConcatParts(_)
ConcatParts(ps) == IF ps = <<>> THEN <<>> ELSE Head(ps) \o ConcatParts(Tail(ps))

MessageContents ==
    {ConcatParts(ps) :
        ps \in UNION {[1..n -> MessageParts] : n \in 0..MaxMessageParts}}

\* A chat of alice with no message, with a message of the assistant only, or
\* with a first user message.
InitTitle ==
    /\ \E msgs \in {<<>>, <<[role |-> "assistant", content |-> <<"H","i">>]>>}
                       \cup {<<[role |-> "user", content |-> m]>> :
                                m \in MessageContents} :
           chats = <<[ChatRow(<<"a","l","i","c","e">>, 1) EXCEPT !.messages = msgs]>>
    /\ pc = "TITLE_CALLED"
    /\ result = NoResult
    /\ raised = FALSE
    /\ topic = None
    /\ num_questions = 0
    /\ difficulty = None
    /\ prompt = NoPrompt
    /\ response = None
    /\ questions = <<>>
    /\ validated_questions = <<>>
    /\ ai_calls = 0
    /\ wf = NoBlock
    /\ ScanIdle
    /\ AppIdle
    /\ ReqIdle

\* The call generate_chat_title(chat_id) on the chat, with its outcome.
TitleCall(kind) ==
    /\ pc = "TITLE_CALLED"
    /\ generate_chat_title(chats, 1).result.kind = kind
    /\ chats' = generate_chat_title(chats, 1).db
    /\ result' = generate_chat_title(chats, 1).result
    /\ raised' = (kind = "raise")
    /\ pc' = "TITLE_DONE"
    /\ UNCHANGED <<topic, num_questions, difficulty, prompt, response,
                   questions, validated_questions, ai_calls, wf, scanVars,
                   appVars, reqVars>>

\* Lines 452-454 and 455: the call returned.
TitleReturned == TitleCall("str")

\* Line 452 raised.
TitleRaised == TitleCall("raise")

NextTitle == TitleReturned \/ TitleRaised

SpecTitle == InitTitle /\ [][NextTitle]_vars

\* C27: generate_chat_title never raises: it returns 'New Chat' and stores
\* nothing, or it returns a title made of at most 6 words of the first user
\* message, at most 30 characters of them followed by '...' when cut, and
\* has stored that title in the row of the chat; so it does when the first
\* user message is made of question marks only.
C27_NeverRaises ==
    pc = "TITLE_DONE" =>
        /\ ~raised
        /\ result.kind = "str"
        /\ \/ result.text = NewChatTitle /\ chats[1].title = NewChatTitle
           \/ /\ chats[1].title = result.text
              /\ Len(SplitWords(result.text)) <= TitleWords
              /\ Len(result.text) <= TitleLength + 4

-----------------------------------------------------------------------------
(* The Chat Assistant page of src/src/app.py, in one browser session *)

\* The page of the sidebar button "Chat Assistant" (app.py line 72).
ChatAssistantPage == <<"C","h","a","t"," ","A","s","s","i","s","t","a","n","t">>

\* The largest number of chats ever created and of messages of one chat.
MaxChats == 2
MaxChatMessages == 2

\* What the user types and what get_ai_response answers.
ChatPrompts == {<<"H","i">>}
ChatResponse == <<"H","e","l","l","o">>

\* st.session_state.current_chat_id: the key is not set, or it is None, or
\* it is a chat_id (1, 2, ...).
NoChatKey == -1
NoChatId == 0

\* st.session_state before the first login.
NewChatSession ==
    [authentication_status |-> FALSE,
     username              |-> None,
     current_page          |-> None,
     welcome_shown         |-> FALSE,
     current_chat_id       |-> NoChatKey,
     messages              |-> <<>>]

\* Auth.get_chat_history(chat_id), auth.py lines 345-369.
get_chat_history(db, chat_id) ==
    IF chat_id \in DOMAIN db THEN db[chat_id].messages ELSE <<>>

\* The chat_ids of ids in the order ORDER BY last_updated DESC.
RECURSIVE ByLastUpdated(_, _)
ByLastUpdated(db, ids) ==
    IF ids = {} THEN <<>>
    ELSE LET first == CHOOSE i \in ids :
                          \A j \in ids : db[j].last_updated <= db[i].last_updated
         IN  <<first>> \o ByLastUpdated(db, ids \ {first})

\* Auth.get_user_chats(username), auth.py lines 300-322.
get_user_chats(db, username) ==
    ByLastUpdated(db, {i \in DOMAIN db :
                          db[i].username = username /\ ~db[i].deleted})

\* The widget the user acted on in a run of the script.
NoEvent == [kind |-> "none"]

\* One run of the branch of app.py lines 112-210 with the widget event ev:
\* the session and the table afterwards and what is on the screen.  A branch
\* that calls st.rerun() runs the script again with no event.
RECURSIVE ChatPage(_, _, _)
ChatPage(ss, db, ev) ==
    LET u == ss.username
        \* lines 117-121: the button "New Chat"
        created == create_new_chat(db, u)
        \* line 124
        chat_list == get_user_chats(db, u)
        \* lines 128-135
        ss1 == IF ss.current_chat_id = NoChatKey /\ chat_list # <<>>
               THEN [ss EXCEPT !.current_chat_id = chat_list[1],
                               !.messages = get_chat_history(db, chat_list[1])]
               ELSE IF chat_list = <<>>
               THEN [ss EXCEPT !.current_chat_id = Len(db) + 1,
                               !.messages = <<>>]
               ELSE ss
        db1 == IF ss.current_chat_id = NoChatKey /\ chat_list # <<>> THEN db
               ELSE IF chat_list = <<>> THEN create_new_chat(db, u)
               ELSE db
        \* lines 169-172
        current_title ==
            IF InList(ss1.current_chat_id, chat_list)
            THEN db1[ss1.current_chat_id].title
            ELSE NewChatTitle
        \* lines 186-209
        db2 == save_message(
                   save_message(db1, ss1.current_chat_id, "user", ev.prompt),
                   ss1.current_chat_id, "assistant", ChatResponse)
        ss2 == [ss1 EXCEPT !.messages =
                   @ \o <<[role |-> "user", content |-> ev.prompt],
                          [role |-> "assistant", content |-> ChatResponse]>>]
        titled == generate_chat_title(db2, ss1.current_chat_id)
        shown(s, d) ==
            [ss |-> s, db |-> d,
             screen |-> [view   |-> "chat",
                         listed |-> chat_list,
                         input  |-> s.current_chat_id >= 1]]
    IN  IF ev.kind = "new_chat" THEN
            ChatPage([ss EXCEPT !.current_chat_id = Len(created),
                                !.messages = <<>>],
                     created, NoEvent)
        ELSE IF ev.kind = "select" THEN
            \* lines 152-154
            ChatPage([ss1 EXCEPT !.current_chat_id = ev.id,
                                 !.messages = get_chat_history(db1, ev.id)],
                     db1, NoEvent)
        ELSE IF ev.kind = "delete" THEN
            \* lines 158-164
            ChatPage(IF ev.id = ss1.current_chat_id
                     THEN [ss1 EXCEPT !.current_chat_id = NoChatId,
                                      !.messages = <<>>]
                     ELSE ss1,
                     delete_chat(db1, ev.id), NoEvent)
        ELSE IF ev.kind = "send" /\ ss1.current_chat_id >= 1 THEN
            IF current_title # NewChatTitle THEN shown(ss2, db2)
            ELSE IF titled.result = Propagated
            THEN [ss |-> ss2, db |-> db2,
                  screen |-> [view |-> "error", listed |-> <<>>,
                              input |-> FALSE]]
            ELSE ChatPage(ss2, titled.db, NoEvent)
        ELSE shown(ss1, db1)

Plain(view) == [view |-> view, listed |-> <<>>, input |-> FALSE]

\* One run of the script app.py main() with the widget event ev:
\*   login_page (auth.py lines 743-787) when nobody is logged in;
\*   the welcome text once (app.py lines 107-111);
\*   the Chat Assistant page (app.py lines 112-210).
ChatScript(ss, db, ev) ==
    IF ~ss.authentication_status THEN
        [ss |-> ss, db |-> db, screen |-> Plain("login")]
    ELSE IF ~ss.welcome_shown THEN
        [ss |-> [ss EXCEPT !.welcome_shown = TRUE], db |-> db,
         screen |-> Plain("welcome")]
    ELSE IF ss.current_page = ChatAssistantPage THEN ChatPage(ss, db, ev)
    ELSE [ss |-> ss, db |-> db, screen |-> Plain("home")]

\* The session and the table after such a run; no more than MaxChats chats
\* and MaxChatMessages messages in a chat are ever stored.
ChatRun(ss, ev) ==
    LET run == ChatScript(ss, chats, ev)
    IN  /\ Len(run.db) <= MaxChats
        /\ \A i \in DOMAIN run.db : Len(run.db[i].messages) <= MaxChatMessages
        /\ session_state' = run.ss
        /\ chats' = run.db
        /\ screen' = run.screen
        /\ UNCHANGED <<pc, topic, num_questions, difficulty, prompt, response,
                       questions, validated_questions, result, raised,
                       ai_calls, wf, scanVars, quizzes, reqVars>>

InitChat ==
    /\ chats = <<>>
    /\ session_state = NewChatSession
    /\ screen = Plain("login")
    /\ quizzes = <<>>
    /\ pc = "CHAT"
    /\ topic = None
    /\ num_questions = 0
    /\ difficulty = None
    /\ prompt = NoPrompt
    /\ response = None
    /\ questions = <<>>
    /\ validated_questions = <<>>
    /\ result = NoResult
    /\ raised = FALSE
    /\ ai_calls = 0
    /\ wf = NoBlock
    /\ ScanIdle
    /\ ReqIdle

\* A successful Auth.login (auth.py lines 199-225), then the rerun.  No chat
\* has a user name for chat_id, so get_chat_history(username) is empty.
ChatLogin ==
    /\ screen.view = "login"
    /\ \E u \in Users :
           ChatRun([session_state EXCEPT !.authentication_status = TRUE,
                                         !.username = u,
                                         !.messages = <<>>,
                                         !.welcome_shown = FALSE], NoEvent)

\* The button "Logout" (app.py lines 59-61) with Auth.logout (auth.py lines
\* 255-268), which leaves current_chat_id as it is.
ChatLogout ==
    /\ screen.view # "login"
    /\ ChatRun([session_state EXCEPT !.authentication_status = FALSE,
                                     !.username = None,
                                     !.messages = <<>>], NoEvent)

\* The sidebar button "Chat Assistant" (app.py lines 71-73).
OpenChatPage ==
    /\ screen.view # "login"
    /\ ChatRun([session_state EXCEPT !.current_page = ChatAssistantPage],
               NoEvent)

\* The sidebar button "New Chat" (app.py lines 117-121).
NewChat ==
    /\ screen.view = "chat"
    /\ ChatRun(session_state, [kind |-> "new_chat"])

\* The button of a chat of the sidebar (app.py lines 147-154).
SelectChat ==
    /\ screen.view = "chat"
    /\ \E id \in Range(screen.listed) :
           ChatRun(session_state, [kind |-> "select", id |-> id])

\* The delete button of a chat of the sidebar (app.py lines 158-164).
DeleteChat ==
    /\ screen.view = "chat"
    /\ \E id \in Range(screen.listed) :
           ChatRun(session_state, [kind |-> "delete", id |-> id])

\* A prompt typed into st.chat_input (app.py lines 180-210).
SendMessage ==
    /\ screen.view = "chat"
    /\ screen.input
    /\ \E p \in ChatPrompts :
           ChatRun(session_state, [kind |-> "send", prompt |-> p])

NextChat ==
    \/ ChatLogin
    \/ ChatLogout
    \/ OpenChatPage
    \/ NewChat
    \/ SelectChat
    \/ DeleteChat
    \/ SendMessage

SpecChat == InitChat /\ [][NextChat]_vars

\* C28: in one browser session, whatever the order of logins, logouts, new
\* chats, selections, deletions and messages, a message is appended only to
\* a chat of the user who is logged in and the title of a chat changes only
\* under its owner: a current_chat_id that a user who logged out left behind
\* is never used for another user.
C28_Step ==
    \A i \in DOMAIN chats :
        (Len(chats'[i].messages) > Len(chats[i].messages)
             \/ chats'[i].title # chats[i].title)
            => chats[i].username = session_state.username

C28_OwnChatOnly == [][C28_Step]_vars

-----------------------------------------------------------------------------
(* The Quiz System page in one browser session, with the pre-made quizzes *)

\* The largest number of saved quizzes at which a pre-made quiz is started.
MaxStartedQuizzes == 2

\* The button "Start Quiz" with a topic of the selectbox (app.py lines
\* 272-285): the quiz is saved with score 0 and submitted False.
StartQuiz(s) ==
    /\ screen[s] = "create"
    /\ Len(quizzes) < MaxStartedQuizzes
    /\ \E tp \in PreMadeTopics :
           LET quiz == QuizDict(get_default_questions(tp), 0, FALSE)
           IN  Rerun(s, [session_state[s] EXCEPT
                             !.current_quiz =
                                 [quiz EXCEPT !.row = Len(quizzes) + 1],
                             !.current_quiz_id = Len(quizzes) + 1,
                             !.creating_quiz = FALSE],
                     save_quiz(quizzes, session_state[s].username, quiz))

\* The session that is used, and its user.
Solo == "s1"
SoloUser == <<"a","l","i","c","e">>

\* A successful Auth.login of that user (auth.py lines 199-225), then the
\* rerun.
SoloLogin ==
    /\ screen[Solo] = "login"
    /\ Rerun(Solo, [session_state[Solo] EXCEPT
                        !.authentication_status = TRUE,
                        !.username = SoloUser,
                        !.welcome_shown = FALSE],
             quizzes)

NextSolo ==
    \/ SoloLogin
    \/ Logout(Solo)
    \/ OpenQuizPage(Solo)
    \/ NewQuiz(Solo)
    \/ LoadQuiz(Solo)
    \/ DeleteQuiz(Solo)
    \/ StartQuiz(Solo)
    \/ GenerateQuiz(Solo)
    \/ ChooseAnswer(Solo)
    \/ SubmitQuiz(Solo)
    \/ StartNewQuiz(Solo)
    \/ Render(Solo)

SpecSolo == InitApp /\ [][NextSolo]_vars

\* The step is a press of "Submit Quiz": the quiz on the screen was not
\* submitted and is submitted now.
Submission ==
    /\ screen[Solo] = "quiz"
    /\ ~session_state[Solo].current_quiz.submitted
    /\ session_state'[Solo].current_quiz # NoQuiz
    /\ session_state'[Solo].current_quiz.submitted
    /\ session_state'[Solo].current_quiz.row =
           session_state[Solo].current_quiz.row

\* C26: when a quiz is submitted, the score stored in its row and in the
\* dict is the number of its questions whose selected answer is the correct
\* answer; a question with no answer counts as wrong; the score is between 0
\* and the number of questions.  A quiz with no questions is never shown with
\* a score: the percentage is not computed for it.
C26_Step ==
    /\ Submission =>
           LET quiz == session_state[Solo].current_quiz
               n == Len(quiz.questions)
               right == {i \in 1..n :
                            /\ session_state[Solo].quiz_answers[i] # None
                            /\ session_state[Solo].quiz_answers[i] =
                                   quiz.questions[i].correct_answer}
               id == session_state[Solo].current_quiz_id
           IN  /\ session_state'[Solo].current_quiz.score = Cardinality(right)
               /\ quizzes'[id].score = Cardinality(right)
               /\ quizzes'[id].submitted
               /\ Cardinality(right) \in 0..n
    /\ screen'[Solo] = "quiz" =>
           Len(session_state'[Solo].current_quiz.questions) > 0

C26_ScoreCountsCorrectAnswers == [][C26_Step]_vars

\* C26 witness: a quiz of two questions was submitted with the first
\* question answered right and the second one not answered: score 1.
C26_Witness ==
    /\ screen[Solo] = "quiz"
    /\ session_state[Solo].current_quiz.submitted
    /\ Len(session_state[Solo].current_quiz.questions) = 2
    /\ session_state[Solo].quiz_answers = <<<<"S","t","a","c","k">>, None>>
    /\ session_state[Solo].current_quiz.score = 1
    /\ quizzes[session_state[Solo].current_quiz_id].score = 1
    /\ quizzes[session_state[Solo].current_quiz_id].submitted

\* C30: whenever a quiz is on the screen, current_quiz_id is the id of the
\* row that quiz was saved as or loaded from, and the row is there; a press
\* of "Submit Quiz" changes that row and no other row.
C30_Step ==
    /\ screen'[Solo] = "quiz" =>
           /\ session_state'[Solo].current_quiz # NoQuiz
           /\ session_state'[Solo].current_quiz_id =
                  session_state'[Solo].current_quiz.row
           /\ session_state'[Solo].current_quiz_id \in 1..Len(quizzes')
           /\ ~quizzes'[session_state'[Solo].current_quiz_id].deleted
           /\ quizzes'[session_state'[Solo].current_quiz_id].questions =
                  session_state'[Solo].current_quiz.questions
    /\ Submission =>
           \A id \in 1..Len(quizzes) :
               quizzes'[id] # quizzes[id] =>
                   id = session_state[Solo].current_quiz.row

C30_ShownQuizHasItsId == [][C30_Step]_vars

\* C30 witness: two quizzes of different questions are saved and both were
\* submitted; the first one is on the screen again, under its own id.
C30_Witness ==
    /\ Len(quizzes) = 2
    /\ screen[Solo] = "quiz"
    /\ session_state[Solo].current_quiz_id = 1
    /\ session_state[Solo].current_quiz.submitted
    /\ quizzes[1].submitted
    /\ quizzes[2].submitted
    /\ quizzes[1].questions # quizzes[2].questions
=============================================================================
